---- MODULE Spec2Model ----
(***************************************************************************)
(* A model of pybit's WebSocket layer:                                     *)
(*   - pybit/__init__.py  class WebSocket (cache polled with fetch)        *)
(*   - pybit/websocket_stream.py  WebSocketManager and its subclasses      *)
(*     (callback directory)                                                *)
(* Each specification below exercises one part of that code: its Init      *)
(* fixes the variables the part does not use and its Next is the           *)
(* disjunction of that part's handlers.                                    *)
(***************************************************************************)
EXTENDS Integers, Sequences, FiniteSets, TLC

VARIABLES
    \* ---- fields of pybit.WebSocket (src/pybit/__init__.py) ----
    data,          \* self.data: cache, a function from the keys present to values
    subscriptions, \* self.subscriptions
    purge,         \* self.purge   (purge_on_fetch)
    max_length,    \* self.max_length (max_data_length)
    trim,          \* self.trim    (trim_data)
    raised,        \* exception that left the last dispatched handler ("none" if none)
    prev,          \* history: self.data as it was when the last push was dispatched
    nframes,       \* history: number of frames dispatched to a reducer
    wellFormed,    \* history: every orderbook push so far kept the exchange's id discipline
    \* ---- caller thread inside fetch(topic) ----
    fpc,           \* position of the caller inside fetch
    flocal,        \* fetch's local variable `data` (the copy)
    fcall,         \* history: the buffer as it was when the current fetch took its copy
    nfetch,        \* history: number of fetch calls that returned
    lastRet,       \* history: what the last finished fetch returned
    returned,      \* history: every entry returned by a fetch, in order
    \* ---- background thread inside _on_message (trade/execution branch) ----
    bpc,           \* position of the background thread inside _on_message
    msg,           \* the push being reduced
    npushed,       \* history: number of entries pushed so far (entries are numbered)
    dirty,         \* history: no fetch has returned yet, or the background thread has acted since the last one did
    overCap,       \* history: some push found the buffer longer than max_length
    dictPush,      \* history: some push carried a single record instead of a list
    \* ---- connection fields shared by pybit.WebSocket and WebSocketManager ----
    mode,          \* kind of endpoint: "futures" or "spot" (unauthenticated spot v1/v2)
    api_key,       \* credentials were given (self.api_key and self.api_secret)
    handle_error,  \* self.handle_error (restart_on_error)
    endpoint,      \* self.endpoint, "unset" while the attribute was never assigned
    exited,        \* self.exited
    auth,          \* self.auth
    sock,          \* self.ws.sock: "connected" or "none" (also before any WebSocketApp exists)
    wsThread,      \* self.wst, the thread running self.ws: "running" or "ended" ("none" before _connect)
    wsGen,         \* number of WebSocketApp objects created by _connect
    connUrl,       \* url given to the WebSocketApp created last
    frames,        \* frames sent on the current self.ws, oldest first
    \* ---- history of the connection ----
    exitCalled,    \* the caller has invoked exit()
    genAtExit,     \* wsGen when the caller invoked exit()
    nerrors,       \* number of transport errors reported so far
    nrecon,        \* number of reconnects (_connect inside _on_error) that returned
    resetStamp,    \* npushed when _reset last ran
    pushedSince,   \* topics for which a push was reduced since _reset last ran
    lastOp,        \* the handler or call that ran last
    \* ---- fields of FuturesWebSocketManager (src/pybit/websocket_stream.py) ----
    callback_directory, \* self.callback_directory: a function from the keys present to callbacks
    nsubs,         \* history: number of subscribe calls made
    lastSub,       \* history: what the last subscribe call met and did
    delivered,     \* history: the push handed to a callback last
    \* ---- the thread inside _connect (src/pybit/__init__.py) ----
    cpc,           \* position inside _connect: "idle" (not inside), "wait" (the retry loop),
                   \* "check" (at `if topic not in self.data`) or "assign" (at `self.data[topic] = {}`)
    retries,       \* _connect's local variable `retries`
    connNote,      \* history: how the last _connect left its retry loop
    \* ---- the caller thread inside exit() ----
    xpc,           \* position inside exit: "idle" (not inside) or "wait" (`while self.ws.sock`)
    \* ---- the caller thread inside FuturesWebSocketManager.subscribe ----
    spc,           \* position inside subscribe: "idle" (not inside) or "set" (frame sent)
    \* ---- a function or the constructor of the module applied on its own ----
    pin,           \* the arguments it is applied to
    pout           \* what it returned (<<>> before it is applied)

vars == <<data, subscriptions, purge, max_length, trim, raised, prev, nframes, wellFormed,
          fpc, flocal, fcall, nfetch, lastRet, returned, bpc, msg, npushed, dirty, overCap, dictPush,
          mode, api_key, handle_error, endpoint, exited, auth, sock, wsThread, wsGen,
          connUrl, frames, exitCalled, genAtExit, nerrors, nrecon, resetStamp,
          pushedSince, lastOp, callback_directory, nsubs, lastSub, delivered,
          cpc, retries, connNote, xpc, spc, pin, pout>>

connVars == <<mode, api_key, handle_error, endpoint, exited, auth, sock, wsThread, wsGen,
              connUrl, frames, exitCalled, genAtExit, nerrors, nrecon, resetStamp,
              pushedSince, lastOp>>

mgrVars == <<callback_directory, nsubs, lastSub, delivered>>

\* no FuturesWebSocketManager is involved
MgrUnused ==
    /\ callback_directory = <<>>
    /\ nsubs = 0
    /\ lastSub = [args |-> <<>>, dup |-> FALSE, sent |-> FALSE, raised |-> "none",
                  changed |-> FALSE]
    /\ delivered = [topic |-> <<>>, callback |-> "none"]

stepVars == <<cpc, retries, connNote, xpc, spc>>

\* no thread is inside _connect, exit or subscribe
StepUnused ==
    /\ cpc = "idle"
    /\ retries = 0
    /\ connNote = [up |-> TRUE, timeout |-> FALSE, left |-> 0]
    /\ xpc = "idle"
    /\ spc = "idle"

pureVars == <<pin, pout>>

\* no function is applied on its own
PureUnused ==
    /\ pin = <<>>
    /\ pout = <<>>

Url == "wss://stream.bybit.com/realtime"

\* a connection that stays up and is not acted on
ConnSteady ==
    /\ mode = "futures"
    /\ api_key = FALSE
    /\ handle_error = FALSE
    /\ endpoint = Url
    /\ exited = FALSE
    /\ auth = FALSE
    /\ sock = "connected"
    /\ wsThread = "running"
    /\ wsGen = 1
    /\ connUrl = Url
    /\ frames = <<>>
    /\ exitCalled = FALSE
    /\ genAtExit = 0
    /\ nerrors = 0
    /\ nrecon = 0
    /\ resetStamp = 0
    /\ pushedSince = {}
    /\ lastOp = "init"

(***************************************************************************)
(* Bounds of the model.                                                    *)
(***************************************************************************)
MaxPush == 3       \* entries pushed to the trade topic in one behaviour
MaxBatch == 2      \* entries carried by one push
MaxFetch == 2      \* fetch calls in one behaviour
MaxCap == 2        \* largest max_data_length tried
TradeKeys == 2     \* number of keys of one trade record (len of the dict)

(***************************************************************************)
(* Cached values.  Python's dynamic shapes are tagged:                     *)
(*   "dict" : the empty placeholder {} written by _connect                 *)
(*   "list" : a list of entries                                            *)
(*   "rec"  : a single pushed record (a dict) stored as the cache value    *)
(***************************************************************************)
EmptyDict == [kind |-> "dict", items |-> <<>>]
EmptyList == [kind |-> "list", items |-> <<>>]
ListOf(s) == [kind |-> "list", items |-> s]
RecOf(e) == [kind |-> "rec", items |-> <<e>>]
NoneValue == [kind |-> "None", items |-> <<>>]

\* len(value) as Python computes it
PyLen(v) ==
    IF v.kind = "rec" THEN TradeKeys ELSE Len(v.items)

\* value.copy(): a shallow copy has the same contents
PyCopy(v) == v

TradeTopic == "trade.BTCUSD"
OtherTopic == "trade.ETHUSD"

SeqToSet(s) == {s[i] : i \in 1..Len(s)}
Count(s, e) == Cardinality({i \in 1..Len(s) : s[i] = e})
Range(a, b) == [i \in 1..(b - a + 1) |-> a + i - 1]

(***************************************************************************)
(* fetch(topic), caller thread.  The trade/execution branch is two         *)
(* statements, `data = self.data[topic].copy()` and                        *)
(* `self.data[topic] = []`; the interpreter may switch threads between     *)
(* them.                                                                   *)
(***************************************************************************)
FetchNotSubscribed(topic) ==
    /\ fpc = "idle"
    /\ nfetch < MaxFetch
    /\ topic \notin SeqToSet(subscriptions)
    /\ nfetch' = nfetch + 1
    /\ lastRet' = [val |-> NoneValue, clean |-> ~dirty, atCall |-> NoneValue]
    /\ UNCHANGED returned
    /\ UNCHANGED <<data, subscriptions, purge, max_length, trim, raised, prev, nframes, wellFormed,
                   fpc, flocal, fcall, bpc, msg, npushed, dirty, overCap, dictPush>>
    /\ UNCHANGED connVars
    /\ UNCHANGED pureVars
    /\ UNCHANGED stepVars
    /\ UNCHANGED mgrVars

FetchCopy(topic) ==
    /\ fpc = "idle"
    /\ nfetch < MaxFetch
    /\ topic \in SeqToSet(subscriptions)
    /\ topic \in DOMAIN data
    /\ flocal' = PyCopy(data[topic])
    /\ fcall' = [val |-> data[topic], clean |-> ~dirty]
    /\ fpc' = "copied"
    /\ UNCHANGED <<data, subscriptions, purge, max_length, trim, raised, prev, nframes, wellFormed,
                   nfetch, lastRet, returned, bpc, msg, npushed, dirty, overCap, dictPush>>
    /\ UNCHANGED connVars
    /\ UNCHANGED pureVars
    /\ UNCHANGED stepVars
    /\ UNCHANGED mgrVars

\* the statement `if self.purge: self.data[topic] = []`
PurgeMutantKeep(d, topic) == d
Purge(d, topic) ==
    IF purge THEN [d EXCEPT ![topic] = EmptyList] ELSE d

FetchReturn(topic) ==
    /\ fpc = "copied"
    /\ data' = Purge(data, topic)
    /\ nfetch' = nfetch + 1
    /\ lastRet' = [val |-> flocal, clean |-> fcall.clean, atCall |-> fcall.val]
    /\ returned' = returned \o flocal.items
    /\ fpc' = "idle"
    /\ dirty' = FALSE
    /\ UNCHANGED <<subscriptions, purge, max_length, trim, raised, prev, nframes, wellFormed,
                   flocal, fcall, bpc, msg, npushed, overCap, dictPush>>
    /\ UNCHANGED connVars
    /\ UNCHANGED pureVars
    /\ UNCHANGED stepVars
    /\ UNCHANGED mgrVars

(***************************************************************************)
(* _on_message, trade/execution branch, background thread.                 *)
(***************************************************************************)
\* a frame arrives: msg_json['data'] is a list of k entries, or one record
RecvTrade(k, shape) ==
    /\ bpc = "idle"
    /\ npushed + k <= MaxPush
    /\ shape = "dict" => k = 1
    /\ msg' = [shape |-> shape, entries |-> Range(npushed + 1, npushed + k), idx |-> 1]
    /\ npushed' = npushed + k
    /\ bpc' = "append"
    /\ raised' = "none"
    /\ dirty' = TRUE
    /\ dictPush' = (dictPush \/ shape = "dict")
    /\ UNCHANGED <<data, subscriptions, purge, max_length, trim, prev, nframes, wellFormed,
                   fpc, flocal, fcall, nfetch, lastRet, returned, overCap>>
    /\ UNCHANGED connVars
    /\ UNCHANGED pureVars
    /\ UNCHANGED stepVars
    /\ UNCHANGED mgrVars

\* one iteration of `for i in trades: self.data[topic].append(i)`;
\* a cache value that is no list raises AttributeError, handled by
\* `self.data[topic] = msg_json['data']`
AppendTrade(topic) ==
    /\ bpc = "append"
    /\ IF data[topic].kind = "list"
       THEN /\ data' = [data EXCEPT ![topic] =
                           ListOf(Append(data[topic].items, msg.entries[msg.idx]))]
            /\ msg' = [msg EXCEPT !.idx = msg.idx + 1]
            /\ bpc' = IF msg.idx = Len(msg.entries) THEN "len" ELSE "append"
       ELSE /\ data' = [data EXCEPT ![topic] =
                           IF msg.shape = "dict" THEN RecOf(msg.entries[1])
                           ELSE ListOf(msg.entries)]
            /\ msg' = [msg EXCEPT !.idx = Len(msg.entries) + 1]
            /\ bpc' = "len"
    /\ dirty' = TRUE
    /\ UNCHANGED <<subscriptions, purge, max_length, trim, raised, prev, nframes, wellFormed,
                   fpc, flocal, fcall, nfetch, lastRet, returned, npushed, overCap, dictPush>>
    /\ UNCHANGED connVars
    /\ UNCHANGED pureVars
    /\ UNCHANGED stepVars
    /\ UNCHANGED mgrVars

\* `if len(self.data[topic]) > self.max_length:`
LenTrade(topic) ==
    /\ bpc = "len"
    /\ IF PyLen(data[topic]) > max_length
       THEN bpc' = "pop" /\ overCap' = TRUE
       ELSE bpc' = "idle" /\ UNCHANGED overCap
    /\ dirty' = TRUE
    /\ UNCHANGED <<data, subscriptions, purge, max_length, trim, raised, prev, nframes, wellFormed,
                   fpc, flocal, fcall, nfetch, lastRet, returned, msg, npushed, dictPush>>
    /\ UNCHANGED connVars
    /\ UNCHANGED pureVars
    /\ UNCHANGED stepVars
    /\ UNCHANGED mgrVars

\* `self.data[topic].pop(0)`: IndexError on an empty list, KeyError on a dict
PopTrade(topic) ==
    /\ bpc = "pop"
    /\ bpc' = "idle"
    /\ IF data[topic].kind = "list" /\ Len(data[topic].items) > 0
       THEN /\ data' = [data EXCEPT ![topic] = ListOf(Tail(data[topic].items))]
            /\ UNCHANGED raised
       ELSE /\ raised' = IF data[topic].kind = "list" THEN "IndexError" ELSE "KeyError"
            /\ UNCHANGED data
    /\ dirty' = TRUE
    /\ UNCHANGED <<subscriptions, purge, max_length, trim, prev, nframes, wellFormed,
                   fpc, flocal, fcall, nfetch, lastRet, returned, msg, npushed, overCap, dictPush>>
    /\ UNCHANGED connVars
    /\ UNCHANGED pureVars
    /\ UNCHANGED stepVars
    /\ UNCHANGED mgrVars

(***************************************************************************)
(* SpecBuffer: one WebSocket subscribed to one trade topic; the caller     *)
(* polls with fetch while the background thread reduces pushes.  The       *)
(* state after construction holds the placeholder {} for the topic.        *)
(***************************************************************************)
InitBuffer ==
    /\ subscriptions = <<TradeTopic>>
    /\ data = [t \in {TradeTopic} |-> EmptyDict]
    /\ purge \in BOOLEAN
    /\ max_length \in 1..MaxCap
    /\ trim = TRUE
    /\ raised = "none"
    /\ prev = data
    /\ nframes = 0
    /\ wellFormed = TRUE
    /\ fpc = "idle"
    /\ flocal = NoneValue
    /\ fcall = [val |-> NoneValue, clean |-> FALSE]
    /\ nfetch = 0
    /\ lastRet = [val |-> NoneValue, clean |-> FALSE, atCall |-> NoneValue]
    /\ returned = <<>>
    /\ bpc = "idle"
    /\ msg = [shape |-> "list", entries |-> <<>>, idx |-> 1]
    /\ npushed = 0
    /\ dirty = TRUE
    /\ overCap = FALSE
    /\ dictPush = FALSE
    /\ ConnSteady
    /\ PureUnused
    /\ StepUnused
    /\ MgrUnused

NextBuffer ==
    \/ FetchNotSubscribed(OtherTopic)
    \/ FetchCopy(TradeTopic)
    \/ FetchReturn(TradeTopic)
    \/ \E k \in 1..MaxBatch, shape \in {"list", "dict"} : RecvTrade(k, shape)
    \/ AppendTrade(TradeTopic)
    \/ LenTrade(TradeTopic)
    \/ PopTrade(TradeTopic)

SpecBuffer == InitBuffer /\ [][NextBuffer]_vars

threadVars == <<fpc, flocal, fcall, nfetch, lastRet, returned,
                bpc, msg, npushed, dirty, overCap, dictPush>>

\* the caller is outside fetch and the background thread outside _on_message
ThreadsIdle ==
    /\ fpc = "idle"
    /\ flocal = NoneValue
    /\ fcall = [val |-> NoneValue, clean |-> FALSE]
    /\ nfetch = 0
    /\ lastRet = [val |-> NoneValue, clean |-> FALSE, atCall |-> NoneValue]
    /\ returned = <<>>
    /\ bpc = "idle"
    /\ npushed = 0
    /\ dirty = TRUE
    /\ overCap = FALSE
    /\ dictPush = FALSE

SeqsUpTo(S, n) == UNION {[1..k -> S] : k \in 0..n}

(***************************************************************************)
(* _on_message, diffDepth branch.  A level is a pair <<price, quantity>>   *)
(* of strings, as the exchange sends them.                                 *)
(***************************************************************************)
MaxLevels == 2     \* [price, qty] pairs carried by one diffDepth push
MaxDepthFrames == 2 \* diffDepth frames dispatched in one behaviour
MaxDepthEntries == 3 \* [price, qty] pairs pushed in one behaviour

DepthTopic == "diffDepth"
Prices == {"100", "101"}
Qtys == {"0", "0.0", "1", "2"}
Levels == Prices \X Qtys

\* float(entry[1])
PyFloat(q) ==
    CASE q = "0" -> 0
      [] q = "0.0" -> 0
      [] q = "1" -> 1
      [] q = "2" -> 2

BookOf(bs, as) == [kind |-> "book", b |-> bs, a |-> as]

\* _find_index(source, target, key): the first index whose key equals the
\* target's, 0 standing for the StopIteration that next() raises when
\* there is none
FindIndex(source, target, key) ==
    LET hits == {i \in 1..Len(source) : source[i][key] = target[key]}
    IN  IF hits = {} THEN 0 ELSE CHOOSE i \in hits : \A j \in hits : i <= j

\* list.pop(index)
PopAt(s, i) == SubSeq(s, 1, i - 1) \o SubSeq(s, i + 1, Len(s))

\* each price at most once in side s
UniquePrices(s) == \A i, j \in 1..Len(s) : s[i][1] = s[j][1] => i = j


\* the body of `for entry in entries:` for one entry of one side
DepthEntry(side, entry) ==
    IF PyFloat(entry[2]) = 0
    THEN LET index == FindIndex(side, entry, 1)
         IN  IF index = 0
             THEN [side |-> side, raised |-> "StopIteration"]
             ELSE [side |-> PopAt(side, index), raised |-> "none"]
    ELSE IF ~(\E i \in 1..Len(side) : side[i][1] = entry[1])
    THEN [side |-> Append(side, entry), raised |-> "none"]
    ELSE LET index == FindIndex(side, entry, 1)
         IN  IF entry[2] # side[index][2]
             THEN [side |-> [side EXCEPT ![index] = entry], raised |-> "none"]
             ELSE [side |-> side, raised |-> "none"]

\* `for entry in entries:` over one side; an exception ends the loop
RECURSIVE DepthSide(_, _)
DepthSide(side, entries) ==
    IF entries = <<>>
    THEN [side |-> side, raised |-> "none"]
    ELSE LET r == DepthEntry(side, Head(entries))
         IN  IF r.raised # "none" THEN r ELSE DepthSide(r.side, Tail(entries))

\* the whole branch: seed on the first push, else side 'b' then side 'a'
DepthReduce(cur, bs, as) ==
    IF cur.kind = "dict"
    THEN [value |-> BookOf(bs, as), raised |-> "none"]
    ELSE LET rb == DepthSide(cur.b, bs)
         IN  IF rb.raised # "none"
             THEN [value |-> BookOf(rb.side, cur.a), raised |-> rb.raised]
             ELSE LET ra == DepthSide(cur.a, as)
                  IN  [value |-> BookOf(rb.side, ra.side), raised |-> ra.raised]

OnDepthPush(bs, as) ==
    LET r == DepthReduce(data[DepthTopic], bs, as)
    IN  /\ nframes < MaxDepthFrames
        /\ npushed + Len(bs) + Len(as) <= MaxDepthEntries
        /\ msg' = [kind |-> "depth", b |-> bs, a |-> as]
        /\ prev' = data
        /\ data' = [data EXCEPT ![DepthTopic] = r.value]
        /\ raised' = r.raised
        /\ nframes' = nframes + 1
        /\ npushed' = npushed + Len(bs) + Len(as)
        /\ UNCHANGED <<subscriptions, purge, max_length, trim,
                       fpc, flocal, fcall, nfetch, lastRet, returned,
                       bpc, dirty, overCap, dictPush, wellFormed>>
        /\ UNCHANGED connVars
        /\ UNCHANGED pureVars
        /\ UNCHANGED stepVars
        /\ UNCHANGED mgrVars

(***************************************************************************)
(* SpecDepth: one spot WebSocket subscribed to one diffDepth topic; the    *)
(* background thread reduces one push after the other.                     *)
(***************************************************************************)
InitDepth ==
    /\ subscriptions = <<DepthTopic>>
    /\ data = [t \in {DepthTopic} |-> EmptyDict]
    /\ purge = TRUE
    /\ max_length = 1
    /\ trim = TRUE
    /\ raised = "none"
    /\ prev = data
    /\ nframes = 0
    /\ wellFormed = TRUE
    /\ msg = [kind |-> "none"]
    /\ ThreadsIdle
    /\ ConnSteady
    /\ PureUnused
    /\ StepUnused
    /\ MgrUnused

\* the pushes tried: msg_json['data'][0]['b'] and ['a'], of at most room
\* pairs together
DepthPushes(room) ==
    {m \in SeqsUpTo(Levels, room) \X SeqsUpTo(Levels, room) :
        Len(m[1]) + Len(m[2]) <= room}

\* pairs the next push may carry
DepthRoom ==
    IF MaxDepthEntries - npushed < MaxLevels THEN MaxDepthEntries - npushed ELSE MaxLevels

NextDepth ==
    /\ nframes < MaxDepthFrames
    /\ \E m \in DepthPushes(DepthRoom) : OnDepthPush(m[1], m[2])

SpecDepth == InitDepth /\ [][NextDepth]_vars

(***************************************************************************)
(* _on_message, orderBook branch.  An entry is a record with the stable    *)
(* identifier `id` and a payload `size`.                                   *)
(***************************************************************************)
MaxSnap == 2        \* entries carried by one orderbook snapshot
MaxDelta == 2       \* entries carried by one delta (delete + update + insert)
MaxBookFrames == 3  \* orderbook frames dispatched in one behaviour
MaxBookEntries == 4 \* entries pushed in one behaviour, snapshots and deltas together

BookTopic == "orderBookL2_25.BTCUSD"
Ids == {1, 2}
Sizes == {1, 2}
Entry(i, z) == [id |-> i, size |-> z]
\* snapshots, deletes and inserts carry size 1; updates carry either size
PlainEntries == {Entry(i, 1) : i \in Ids}
UpdateEntries == {Entry(i, z) : i \in Ids, z \in Sizes}

\* the untrimmed cache value: the whole message, whose 'data' is the list
EnvOf(s) == [kind |-> "env", items |-> s]

IdsOf(s) == {s[i].id : i \in 1..Len(s)}
UniqueIds(s) == \A i, j \in 1..Len(s) : s[i].id = s[j].id => i = j

\* `for entry in msg_json['data']['delete']: index = _find_index(...); pop`
BookDeleteMutantKeep(items, del) == [items |-> items, raised |-> "none"]
RECURSIVE BookDelete(_, _)
BookDelete(items, del) ==
    IF del = <<>>
    THEN [items |-> items, raised |-> "none"]
    ELSE LET index == FindIndex(items, Head(del), "id")
         IN  IF index = 0
             THEN [items |-> items, raised |-> "StopIteration"]
             ELSE BookDelete(PopAt(items, index), Tail(del))

\* `for entry in msg_json['data']['update']: ...; self.data[topic][index] = entry`
RECURSIVE BookUpdateMutantSkip(_, _)
BookUpdateMutantSkip(items, upd) ==
    IF upd = <<>>
    THEN [items |-> items, raised |-> "none"]
    ELSE LET index == FindIndex(items, Head(upd), "id")
         IN  BookUpdateMutantSkip(IF index = 0 THEN items ELSE [items EXCEPT ![index] = Head(upd)],
                                  Tail(upd))
RECURSIVE BookUpdate(_, _)
BookUpdate(items, upd) ==
    IF upd = <<>>
    THEN [items |-> items, raised |-> "none"]
    ELSE LET index == FindIndex(items, Head(upd), "id")
         IN  IF index = 0
             THEN [items |-> items, raised |-> "StopIteration"]
             ELSE BookUpdate([items EXCEPT ![index] = Head(upd)], Tail(upd))

\* `for entry in msg_json['data']['insert']: self.data[topic].append(entry)`
BookInsert(items, ins) == [items |-> items \o ins, raised |-> "none"]

\* the delta branch on a cached list: delete, then update, then insert;
\* an exception leaves what was applied before it
BookDeltaList(items, del, upd, ins) ==
    LET d == BookDelete(items, del)
    IN  IF d.raised # "none" THEN d
        ELSE LET u == BookUpdate(d.items, upd)
             IN  IF u.raised # "none" THEN u
                 ELSE BookInsert(u.items, ins)

\* the delta branch on any cached value.  Enumerating the placeholder {}
\* finds nothing (StopIteration); enumerating the untrimmed envelope yields
\* its keys, strings, and j['id'] raises TypeError; neither has append.
BookDelta(cur, del, upd, ins) ==
    IF cur.kind = "list"
    THEN LET r == BookDeltaList(cur.items, del, upd, ins)
         IN  [value |-> ListOf(r.items), raised |-> r.raised]
    ELSE [value |-> cur,
          raised |-> IF del \o upd # <<>>
                     THEN (IF cur.kind = "env" THEN "TypeError" ELSE "StopIteration")
                     ELSE IF ins # <<>> THEN "AttributeError" ELSE "none"]

\* the snapshot branch
BookSnapshot(list) == IF trim THEN ListOf(list) ELSE EnvOf(list)

\* the exchange's id discipline for a delta: inserted ids are pairwise
\* distinct and none of them is cached once the deletes are applied
DeltaWellFormed(cur, del, ins) ==
    /\ UniqueIds(ins)
    /\ IdsOf(ins) \cap (IdsOf(cur.items) \ IdsOf(del)) = {}

OnBookSnapshot(list) ==
    /\ nframes < MaxBookFrames
    /\ npushed + Len(list) <= MaxBookEntries
    /\ npushed' = npushed + Len(list)
    /\ msg' = [kind |-> "snapshot", list |-> list]
    /\ prev' = data
    /\ data' = [data EXCEPT ![BookTopic] = BookSnapshot(list)]
    /\ raised' = "none"
    /\ nframes' = nframes + 1
    /\ wellFormed' = (wellFormed /\ UniqueIds(list))
    /\ UNCHANGED <<subscriptions, purge, max_length, trim,
                   fpc, flocal, fcall, nfetch, lastRet, returned,
                   bpc, dirty, overCap, dictPush>>
    /\ UNCHANGED connVars
    /\ UNCHANGED pureVars
    /\ UNCHANGED stepVars
    /\ UNCHANGED mgrVars

OnBookDelta(del, upd, ins) ==
    LET r == BookDelta(data[BookTopic], del, upd, ins)
    IN  /\ nframes < MaxBookFrames
        /\ npushed + Len(del) + Len(upd) + Len(ins) <= MaxBookEntries
        /\ npushed' = npushed + Len(del) + Len(upd) + Len(ins)
        /\ msg' = [kind |-> "delta", delete |-> del, update |-> upd, insert |-> ins]
        /\ prev' = data
        /\ data' = [data EXCEPT ![BookTopic] = r.value]
        /\ raised' = r.raised
        /\ nframes' = nframes + 1
        /\ wellFormed' = (wellFormed /\ DeltaWellFormed(data[BookTopic], del, ins))
        /\ UNCHANGED <<subscriptions, purge, max_length, trim,
                       fpc, flocal, fcall, nfetch, lastRet, returned,
                       bpc, dirty, overCap, dictPush>>
        /\ UNCHANGED connVars
        /\ UNCHANGED pureVars
        /\ UNCHANGED stepVars
        /\ UNCHANGED mgrVars

(***************************************************************************)
(* SpecBook: one futures WebSocket subscribed to one orderBook topic,      *)
(* with trim_data on or off; the background thread reduces one push after  *)
(* the other.                                                              *)
(***************************************************************************)
InitBook ==
    /\ subscriptions = <<BookTopic>>
    /\ data = [t \in {BookTopic} |-> EmptyDict]
    /\ purge = TRUE
    /\ max_length = 1
    /\ trim \in BOOLEAN
    /\ raised = "none"
    /\ prev = data
    /\ nframes = 0
    /\ wellFormed = TRUE
    /\ msg = [kind |-> "none"]
    /\ ThreadsIdle
    /\ ConnSteady
    /\ PureUnused
    /\ StepUnused
    /\ MgrUnused

\* the deltas tried: <<delete, update, insert>>, of at most room entries
\* together
BookDeltas(room) ==
    {m \in SeqsUpTo(PlainEntries, room) \X SeqsUpTo(UpdateEntries, room)
              \X SeqsUpTo(PlainEntries, room) :
        Len(m[1]) + Len(m[2]) + Len(m[3]) <= room}

\* entries the next push may carry, at most cap
BookRoom(cap) ==
    IF MaxBookEntries - npushed < cap THEN MaxBookEntries - npushed ELSE cap

NextBook ==
    \/ \E list \in SeqsUpTo(PlainEntries, BookRoom(MaxSnap)) : OnBookSnapshot(list)
    \/ \E m \in BookDeltas(BookRoom(MaxDelta)) : OnBookDelta(m[1], m[2], m[3])

SpecBook == InitBook /\ [][NextBook]_vars

(***************************************************************************)
(* The connection lifecycle of pybit.WebSocket: __init__, _connect,         *)
(* _on_error, _reset, exit, and fetch and _on_message taken as whole        *)
(* handlers.  A topic is a record: `name` is the logical topic, `form` how  *)
(* self.subscriptions holds it: "str" a futures topic string, "dict" a spot  *)
(* subscription dict, "conf" the JSON string conform_topic makes of one.    *)
(***************************************************************************)
MaxErrors == 2     \* transport errors reported in one behaviour
MaxStamps == 2     \* pushes dispatched in one behaviour (each payload is numbered)

histVars == <<prev, nframes, wellFormed, fpc, flocal, fcall, nfetch, returned,
              bpc, msg, dirty, overCap, dictPush>>

HistUnused ==
    /\ prev = <<>>
    /\ nframes = 0
    /\ wellFormed = TRUE
    /\ fpc = "idle"
    /\ flocal = NoneValue
    /\ fcall = [val |-> NoneValue, clean |-> FALSE]
    /\ nfetch = 0
    /\ returned = <<>>
    /\ bpc = "idle"
    /\ msg = [kind |-> "none"]
    /\ dirty = TRUE
    /\ overCap = FALSE
    /\ dictPush = FALSE

Topic(form, name) == [form |-> form, name |-> name]
FuturesTopics == {Topic("str", "trade.BTCUSD"), Topic("str", "klineV2.1.BTCUSD")}
SpotTopics == {Topic("dict", "trade"), Topic("dict", "kline")}

\* conform_topic(topic): a dict (or its JSON string) becomes the canonical
\* JSON string of the logical topic
SocketConform(t) == Topic("conf", t.name)

\* `any(i in topic for i in ['trade', 'execution'])` and not an orderBook
\* or executionReport topic, on the topics modelled
IsDrain(t) == t.name \in {"trade.BTCUSD", "trade"}

\* _auth: {'op': 'auth', 'args': [self.api_key, expires, signature]}
AuthFrameMutantNone == [op |-> "ping", args |-> <<>>]
AuthFrame == [op |-> "auth", args |-> <<"api_key", "expires", "signature">>]
SubFrame(topics) ==
    [op |-> "subscribe", args |-> [i \in 1..Len(topics) |-> topics[i].name],
     ack |-> "none"]   \* ack: history, the server's answer once it was dispatched

\* the topic names listed by the subscribe frames among fs
Listed(fs) ==
    UNION {SeqToSet(fs[i].args) : i \in {j \in 1..Len(fs) : fs[j].op = "subscribe"}}

\* `for topic in topics: if topic not in self.data: self.data[topic] = {}`
Placeholders(d, topics) ==
    [t \in DOMAIN d \cup SeqToSet(topics) |-> IF t \in DOMAIN d THEN d[t] ELSE EmptyDict]

\* _reset: `self.data = {}`
ResetDataMutantKeep(d) == d
ResetData(d) == <<>>

\* exit(): close the transport, wait until self.ws.sock is gone, set exited
ExitEffect == [sock |-> "none", exited |-> TRUE]

\* _connect(url) with the transport's answer: "connected" within the ten
\* retries, or "timeout".  The result names what _connect leaves behind.
SocketConnect(subs, d, outcome) ==
    LET authF == IF api_key /\ mode # "spot" THEN <<AuthFrame>> ELSE <<>>
        \* spot: the first subscription that is no dict has no .get
        bad == {i \in 1..Len(subs) : subs[i].form # "dict"}
        k == IF bad = {} THEN Len(subs) + 1 ELSE CHOOSE i \in bad : \A j \in bad : i <= j
        conformed == [i \in 1..Len(subs) |-> SocketConform(subs[i])]
    IN  IF outcome = "timeout"
        THEN [subscriptions |-> subs, data |-> d, frames |-> <<>>,
              sock |-> ExitEffect.sock, exited |-> ExitEffect.exited,
              raised |-> "WebSocketTimeoutException"]
        ELSE IF mode = "spot" /\ k <= Len(subs)
        THEN [subscriptions |-> subs, data |-> d,
              frames |-> authF \o [i \in 1..(k - 1) |-> SubFrame(<<subs[i]>>)],
              sock |-> "connected", exited |-> FALSE, raised |-> "AttributeError"]
        ELSE IF mode = "spot"
        THEN [subscriptions |-> conformed, data |-> Placeholders(d, conformed),
              frames |-> authF \o [i \in 1..Len(subs) |-> SubFrame(<<subs[i]>>)],
              sock |-> "connected", exited |-> FALSE, raised |-> "none"]
        ELSE [subscriptions |-> subs, data |-> Placeholders(d, subs),
              frames |-> authF \o <<SubFrame(subs)>>,
              sock |-> "connected", exited |-> FALSE, raised |-> "none"]

\* exit(), called by the application
SocketExit ==
    /\ sock' = ExitEffect.sock
    /\ exited' = ExitEffect.exited
    /\ exitCalled' = TRUE
    /\ genAtExit' = wsGen
    /\ lastOp' = "exit"
    /\ raised' = "none"
    /\ UNCHANGED <<data, subscriptions, purge, max_length, trim, lastRet, npushed,
                   mode, api_key, handle_error, endpoint, auth, wsThread, wsGen,
                   connUrl, frames, nerrors, nrecon, resetStamp, pushedSince>>
    /\ UNCHANGED histVars
    /\ UNCHANGED pureVars
    /\ UNCHANGED stepVars
    /\ UNCHANGED mgrVars

\* _on_error(error), called on the thread of self.ws when the transport
\* reports an error: exit() unless already exited, then, with
\* restart_on_error, _reset() and _connect(self.endpoint)
SocketOnError(outcome) ==
    /\ wsThread = "running"
    /\ nerrors < MaxErrors
    /\ nerrors' = nerrors + 1
    /\ lastOp' = "on_error"
    /\ IF handle_error
       THEN LET c == SocketConnect(subscriptions, ResetData(data), outcome)
            IN  /\ auth' = FALSE
                /\ subscriptions' = c.subscriptions
                /\ data' = c.data
                /\ frames' = c.frames
                /\ sock' = c.sock
                /\ exited' = c.exited
                /\ raised' = c.raised
                /\ wsGen' = wsGen + 1
                /\ connUrl' = endpoint
                /\ wsThread' = "running"
                /\ nrecon' = IF c.raised = "none" THEN nrecon + 1 ELSE nrecon
                /\ resetStamp' = npushed
                /\ pushedSince' = {}
       ELSE /\ sock' = ExitEffect.sock
            /\ exited' = ExitEffect.exited
            /\ wsThread' = "ended"
            /\ raised' = "none"
            /\ UNCHANGED <<auth, subscriptions, data, frames, wsGen, connUrl, nrecon,
                           resetStamp, pushedSince>>
    /\ UNCHANGED <<purge, max_length, trim, lastRet, npushed, mode, api_key,
                   handle_error, endpoint, exitCalled, genAtExit>>
    /\ UNCHANGED histVars
    /\ UNCHANGED pureVars
    /\ UNCHANGED stepVars
    /\ UNCHANGED mgrVars

\* the thread of a closed socket ends without reporting an error
SocketThreadEnd ==
    /\ wsThread = "running"
    /\ sock = "none"
    /\ wsThread' = "ended"
    /\ lastOp' = "thread_end"
    /\ UNCHANGED <<data, subscriptions, purge, max_length, trim, raised, lastRet, npushed,
                   mode, api_key, handle_error, endpoint, exited, auth, sock, wsGen,
                   connUrl, frames, exitCalled, genAtExit, nerrors, nrecon, resetStamp,
                   pushedSince>>
    /\ UNCHANGED histVars
    /\ UNCHANGED pureVars
    /\ UNCHANGED stepVars
    /\ UNCHANGED mgrVars

\* the answers to an auth frame: the futures form {'success': ..., 'request':
\* {'op': 'auth'}} and the spot form {'auth': 'success' | 'fail'}
AuthAcks ==
    {[auth |-> "absent", op |-> "auth", success |-> x] : x \in {"True", "False"}}
    \cup {[auth |-> a, op |-> "absent", success |-> "absent"] : a \in {"success", "fail"}}

\* the answer says the authentication succeeded
AckSucceeds(f) == f.success = "True" \/ f.auth = "success"

\* self.auth after the `if auth_message:` block of _on_message
AuthFlagAfterMutantAlways(f, a) == TRUE
AuthFlagAfter(f, a) ==
    IF (f.auth # "absent" \/ f.op = "auth") /\ (f.success = "True" \/ f.auth = "success")
    THEN TRUE
    ELSE a

\* _on_message for an authentication acknowledgement
SocketOnAuthAck(f) ==
    /\ sock = "connected"
    /\ wsThread = "running"
    /\ \E i \in 1..Len(frames) : frames[i].op = "auth"
    /\ auth' = AuthFlagAfter(f, auth)
    /\ lastOp' = (IF AckSucceeds(f) THEN "auth_ack" ELSE "auth_nack")
    /\ raised' = "none"
    /\ UNCHANGED <<data, subscriptions, purge, max_length, trim, lastRet, npushed,
                   mode, api_key, handle_error, endpoint, exited, sock, wsThread, wsGen,
                   connUrl, frames, exitCalled, genAtExit, nerrors, nrecon, resetStamp,
                   pushedSince>>
    /\ UNCHANGED histVars
    /\ UNCHANGED pureVars
    /\ UNCHANGED stepVars
    /\ UNCHANGED mgrVars

\* the trade/execution branch as one step, for a push carrying `entries`
TradeReduce(d, t, entries) ==
    IF t \notin DOMAIN d
    THEN [data |-> d, raised |-> "KeyError"]
    ELSE LET appended == IF d[t].kind = "list"
                         THEN ListOf(d[t].items \o entries)
                         ELSE ListOf(entries)
         IN  IF PyLen(appended) > max_length
             THEN [data |-> [d EXCEPT ![t] = ListOf(Tail(appended.items))], raised |-> "none"]
             ELSE [data |-> [d EXCEPT ![t] = appended], raised |-> "none"]

\* a snapshot-only family (kline): `self.data[topic] = msg_json['data'] if
\* self.trim else msg_json`
ReplaceReduce(d, t, payload) ==
    [data |-> [x \in DOMAIN d \cup {t} |->
                  IF x = t THEN (IF trim THEN RecOf(payload) ELSE EnvOf(<<payload>>))
                  ELSE d[x]],
     raised |-> "none"]

\* _on_message for a data push of topic t; the server pushes only topics
\* that a subscribe frame on this socket listed
SocketOnPush(t) ==
    /\ sock = "connected"
    /\ wsThread = "running"
    /\ npushed < MaxStamps
    /\ t \in SeqToSet(subscriptions)
    /\ t.name \in Listed(frames)
    /\ LET r == IF IsDrain(t) THEN TradeReduce(data, t, <<npushed + 1>>)
                ELSE ReplaceReduce(data, t, npushed + 1)
       IN  /\ data' = r.data
           /\ raised' = r.raised
    /\ npushed' = npushed + 1
    /\ pushedSince' = pushedSince \cup {t}
    /\ lastOp' = "push"
    /\ UNCHANGED <<subscriptions, purge, max_length, trim, lastRet,
                   mode, api_key, handle_error, endpoint, exited, auth, sock, wsThread,
                   wsGen, connUrl, frames, exitCalled, genAtExit, nerrors, nrecon,
                   resetStamp>>
    /\ UNCHANGED histVars
    /\ UNCHANGED pureVars
    /\ UNCHANGED stepVars
    /\ UNCHANGED mgrVars

\* the topics handed to fetch: those the constructor accepts, and on a spot
\* endpoint also a subscription dict that has no 'params' key (form "bare")
FetchArgs ==
    IF mode = "spot"
    THEN SpotTopics \cup {Topic("bare", "trade"), Topic("bare", "kline")}
    ELSE FuturesTopics

\* `try: return self.data[topic]; except KeyError: return []`
FetchOtherMutantEmpty(d, t) == EmptyList
FetchOther(d, t) == IF t \in DOMAIN d THEN d[t] ELSE EmptyList

\* fetch(topic), called by the application.  On a spot endpoint the
\* argument goes through conform_topic first, whose topic['params'] raises
\* KeyError for a dict without that key.
SocketFetch(arg) ==
    LET t == IF mode = "spot" THEN SocketConform(arg) ELSE arg
        ret(v) == [val |-> v, topic |-> t, pushed |-> t \in pushedSince,
                   floor |-> resetStamp, recon |-> nrecon, arg |-> arg,
                   listed |-> t \in SeqToSet(subscriptions)]
    IN  /\ lastOp' = "fetch"
        /\ IF mode = "spot" /\ arg.form = "bare"
           THEN /\ lastRet' = ret([kind |-> "raise", items |-> <<>>])
                /\ raised' = "KeyError"
                /\ UNCHANGED data
           ELSE IF t \notin SeqToSet(subscriptions)
           THEN /\ lastRet' = ret(NoneValue)
                /\ raised' = "none"
                /\ UNCHANGED data
           ELSE IF IsDrain(t)
           THEN IF t \in DOMAIN data
                THEN /\ lastRet' = ret(PyCopy(data[t]))
                     /\ data' = Purge(data, t)
                     /\ raised' = "none"
                ELSE /\ lastRet' = ret([kind |-> "raise", items |-> <<>>])
                     /\ raised' = "KeyError"
                     /\ UNCHANGED data
           ELSE /\ lastRet' = ret(FetchOther(data, t))
                /\ raised' = "none"
                /\ UNCHANGED data
        /\ UNCHANGED <<subscriptions, purge, max_length, trim, npushed,
                       mode, api_key, handle_error, endpoint, exited, auth, sock, wsThread,
                       wsGen, connUrl, frames, exitCalled, genAtExit, nerrors, nrecon,
                       resetStamp, pushedSince>>
        /\ UNCHANGED histVars
        /\ UNCHANGED pureVars
        /\ UNCHANGED stepVars
        /\ UNCHANGED mgrVars

(***************************************************************************)
(* SpecSocket: a WebSocket as its constructor leaves it (_reset, then a    *)
(* _connect that found the transport connected), on a futures or a spot    *)
(* endpoint, polled by the application while the transport pushes, fails   *)
(* and is closed.                                                          *)
(***************************************************************************)
\* the subscription lists tried
SubscriptionLists(topics) ==
    {s \in SeqsUpTo(topics, 2) : Len(s) > 0 /\ \A i, j \in 1..Len(s) : s[i] = s[j] => i = j}

InitSocket ==
    /\ mode \in {"futures", "spot"}
    /\ api_key \in BOOLEAN
    /\ handle_error \in BOOLEAN
    /\ purge \in BOOLEAN
    /\ trim = TRUE
    /\ max_length = MaxCap
    /\ endpoint = Url
    /\ \E subs \in SubscriptionLists(IF mode = "spot" THEN SpotTopics ELSE FuturesTopics) :
           LET c == SocketConnect(subs, ResetData(<<>>), "connected")
           IN  /\ subscriptions = c.subscriptions
               /\ data = c.data
               /\ frames = c.frames
               /\ sock = c.sock
               /\ exited = c.exited
               /\ raised = c.raised
    /\ auth = FALSE
    /\ wsThread = "running"
    /\ wsGen = 1
    /\ connUrl = endpoint
    /\ exitCalled = FALSE
    /\ genAtExit = 0
    /\ nerrors = 0
    /\ nrecon = 0
    /\ resetStamp = 0
    /\ pushedSince = {}
    /\ lastOp = "init"
    /\ npushed = 0
    /\ lastRet = [val |-> NoneValue, topic |-> Topic("str", ""), pushed |-> FALSE,
                  floor |-> 0, recon |-> 0, arg |-> Topic("str", ""), listed |-> FALSE]
    /\ HistUnused
    /\ PureUnused
    /\ StepUnused
    /\ MgrUnused

NextSocket ==
    \/ SocketExit
    \/ \E outcome \in {"connected", "timeout"} : SocketOnError(outcome)
    \/ SocketThreadEnd
    \/ \E f \in AuthAcks : SocketOnAuthAck(f)
    \/ \E t \in SeqToSet(subscriptions) : SocketOnPush(t)
    \/ \E arg \in FetchArgs : SocketFetch(arg)

SpecSocket == InitSocket /\ [][NextSocket]_vars

(***************************************************************************)
(* WebSocket.__init__ (src/pybit/__init__.py): the checks made on the      *)
(* subscription list, then _reset() and _connect(self.endpoint).  The      *)
(* endpoint is a futures one (no "spot" in it) or the public spot one      *)
(* ("spot" and a version in it).  A subscription of form "json" is a       *)
(* string that json.loads accepts, of form "str" any other string.         *)
(***************************************************************************)
MaxCtorSubs == 2   \* subscriptions handed to one constructor call

\* the families that need a parameter, given without it
BareFamilies == {Topic("str", "trade"), Topic("str", "insurance"), Topic("str", "klineV2")}

\* the private families
PrivateFamilies ==
    {Topic("str", n) : n \in {"position", "execution", "order", "stop_order", "wallet"}}

\* the subscriptions tried on each endpoint
CtorTopics(m) ==
    IF m = "spot"
    THEN SpotTopics \cup {Topic("json", "trade"), Topic("str", "trade.BTCUSD")}
    ELSE FuturesTopics \cup BareFamilies \cup {Topic("str", "position"), Topic("dict", "trade")}

\* the exception __init__ raises before _reset(), or "none"
CtorCheckMutantNoFamilies(m, key, subs) ==
    IF subs = <<>> THEN "Exception"
    ELSE IF m = "spot" /\ \E i \in 1..Len(subs) : subs[i].form = "str" THEN "Exception"
    ELSE IF m # "spot" /\ \E i \in 1..Len(subs) : subs[i].form = "dict" THEN "Exception"
    ELSE IF m # "spot" /\ ~key /\ SeqToSet(subs) \cap PrivateFamilies # {} THEN "PermissionError"
    ELSE "none"
CtorCheck(m, key, subs) ==
    \* `if not self.spot_auth: if not subscriptions: raise Exception`
    IF subs = <<>> THEN "Exception"
    \* `if not self.spot: if 'trade' in subscriptions: raise Exception ...`
    ELSE IF m # "spot" /\ SeqToSet(subs) \cap BareFamilies # {} THEN "Exception"
    \* spot: a string that is no JSON
    ELSE IF m = "spot" /\ \E i \in 1..Len(subs) : subs[i].form = "str" THEN "Exception"
    \* futures: `if not isinstance(subscription, str): raise Exception`
    ELSE IF m # "spot" /\ \E i \in 1..Len(subs) : subs[i].form = "dict" THEN "Exception"
    \* private topics `and api_key is None`
    ELSE IF m # "spot" /\ ~key /\ SeqToSet(subs) \cap PrivateFamilies # {} THEN "PermissionError"
    ELSE "none"

\* the list __init__ keeps.  Spot: `for subscription in subscriptions.copy():
\* if isinstance(subscription, str): pop it, append json.loads(it)`, so the
\* parsed strings end up behind the dicts, in their order.
CtorSubscriptions(m, subs) ==
    IF m = "spot"
    THEN SelectSeq(subs, LAMBDA t : t.form = "dict")
         \o [i \in 1..Len(SelectSeq(subs, LAMBDA t : t.form = "json")) |->
                Topic("dict", SelectSeq(subs, LAMBDA t : t.form = "json")[i].name)]
    ELSE subs

\* WebSocket(endpoint, subscriptions=subs, ...), called by the application;
\* outcome is the transport's answer to _connect
WebSocketInit(subs, outcome) ==
    LET chk == CtorCheck(mode, api_key, subs)
        c == SocketConnect(CtorSubscriptions(mode, subs), ResetData(data), outcome)
    IN  /\ lastOp = "new"
        /\ pin' = subs
        /\ IF chk # "none"
           THEN /\ raised' = chk
                /\ lastOp' = "init_raised"
                /\ UNCHANGED <<subscriptions, data, frames, sock, exited, wsThread, wsGen,
                               connUrl>>
           ELSE /\ subscriptions' = c.subscriptions
                /\ data' = c.data
                /\ frames' = c.frames
                /\ sock' = c.sock
                /\ exited' = c.exited
                /\ raised' = c.raised
                /\ lastOp' = IF c.raised = "none" THEN "init" ELSE "init_raised"
                /\ wsThread' = "running"
                /\ wsGen' = 1
                /\ connUrl' = endpoint
        /\ UNCHANGED <<purge, max_length, trim, lastRet, npushed, mode, api_key,
                       handle_error, endpoint, auth, exitCalled, genAtExit, nerrors,
                       nrecon, resetStamp, pushedSince, pout>>
        /\ UNCHANGED histVars
        /\ UNCHANGED stepVars
        /\ UNCHANGED mgrVars

\* __init__ returned an object
Constructed == lastOp \notin {"new", "init_raised"}

(***************************************************************************)
(* SpecCtor: the application constructs one WebSocket and, when the        *)
(* constructor returned, polls and closes it.                              *)
(***************************************************************************)
InitCtor ==
    /\ mode \in {"futures", "spot"}
    /\ api_key \in BOOLEAN
    /\ handle_error \in BOOLEAN
    /\ purge \in BOOLEAN
    /\ trim = TRUE
    /\ max_length = MaxCap
    /\ endpoint = Url
    /\ subscriptions = <<>>
    /\ data = <<>>
    /\ frames = <<>>
    /\ sock = "none"
    /\ exited = FALSE
    /\ raised = "none"
    /\ auth = FALSE
    /\ wsThread = "none"
    /\ wsGen = 0
    /\ connUrl = "none"
    /\ exitCalled = FALSE
    /\ genAtExit = 0
    /\ nerrors = 0
    /\ nrecon = 0
    /\ resetStamp = 0
    /\ pushedSince = {}
    /\ lastOp = "new"
    /\ npushed = 0
    /\ lastRet = [val |-> NoneValue, topic |-> Topic("str", ""), pushed |-> FALSE,
                  floor |-> 0, recon |-> 0, arg |-> Topic("str", ""), listed |-> FALSE]
    /\ HistUnused
    /\ PureUnused
    /\ StepUnused
    /\ MgrUnused

NextCtor ==
    \/ \E subs \in SeqsUpTo(CtorTopics(mode), MaxCtorSubs) :
          \E outcome \in {"connected", "timeout"} : WebSocketInit(subs, outcome)
    \/ Constructed /\ SocketExit
    \/ Constructed /\ \E arg \in FetchArgs : SocketFetch(arg)

SpecCtor == InitCtor /\ [][NextCtor]_vars

(***************************************************************************)
(* exit() of pybit.WebSocket step by step, on the caller's thread:         *)
(* `self.ws.close()`, the wait `while self.ws.sock: continue`, and         *)
(* `self.exited = True`.  The transport closes the socket of a             *)
(* WebSocketApp some time after close() was called on it; the thread of    *)
(* self.ws may run _on_error meanwhile.                                    *)
(***************************************************************************)
\* `self.ws.close()`
ExitClose ==
    /\ xpc = "idle"
    /\ ~exitCalled
    /\ xpc' = "wait"
    /\ exitCalled' = TRUE
    /\ genAtExit' = wsGen
    /\ lastOp' = "exit_close"
    /\ UNCHANGED <<data, subscriptions, purge, max_length, trim, raised, lastRet, npushed,
                   mode, api_key, handle_error, endpoint, exited, auth, sock, wsThread,
                   wsGen, connUrl, frames, nerrors, nrecon, resetStamp, pushedSince,
                   cpc, retries, connNote, spc>>
    /\ UNCHANGED histVars
    /\ UNCHANGED pureVars
    /\ UNCHANGED mgrVars

\* the transport closes the socket of the WebSocketApp that close() was
\* called on
TransportDown ==
    /\ exitCalled /\ genAtExit = wsGen
    /\ sock = "connected"
    /\ sock' = "none"
    /\ lastOp' = "transport_down"
    /\ UNCHANGED <<data, subscriptions, purge, max_length, trim, raised, lastRet, npushed,
                   mode, api_key, handle_error, endpoint, exited, auth, wsThread, wsGen,
                   connUrl, frames, exitCalled, genAtExit, nerrors, nrecon, resetStamp,
                   pushedSince>>
    /\ UNCHANGED stepVars
    /\ UNCHANGED histVars
    /\ UNCHANGED pureVars
    /\ UNCHANGED mgrVars

\* `while self.ws.sock:` finds no socket on the current self.ws
ExitLeave ==
    /\ xpc = "wait"
    /\ sock = "none"
    /\ xpc' = "mark"
    /\ lastOp' = "exit_leave"
    /\ UNCHANGED <<data, subscriptions, purge, max_length, trim, raised, lastRet, npushed,
                   mode, api_key, handle_error, endpoint, exited, auth, sock, wsThread,
                   wsGen, connUrl, frames, exitCalled, genAtExit, nerrors, nrecon,
                   resetStamp, pushedSince, cpc, retries, connNote, spc>>
    /\ UNCHANGED histVars
    /\ UNCHANGED pureVars
    /\ UNCHANGED mgrVars

\* `self.exited = True`, and exit returns
ExitMark ==
    /\ xpc = "mark"
    /\ exited' = TRUE
    /\ xpc' = "idle"
    /\ lastOp' = "exit"
    /\ UNCHANGED <<data, subscriptions, purge, max_length, trim, raised, lastRet, npushed,
                   mode, api_key, handle_error, endpoint, auth, sock, wsThread,
                   wsGen, connUrl, frames, exitCalled, genAtExit, nerrors, nrecon,
                   resetStamp, pushedSince, cpc, retries, connNote, spc>>
    /\ UNCHANGED histVars
    /\ UNCHANGED pureVars
    /\ UNCHANGED mgrVars

(***************************************************************************)
(* SpecExit: a constructed WebSocket whose transport pushes and fails      *)
(* while the application calls exit() once.                                *)
(***************************************************************************)
InitExit == InitSocket

NextExit ==
    \/ ExitClose
    \/ TransportDown
    \/ ExitLeave
    \/ ExitMark
    \/ \E outcome \in {"connected", "timeout"} : SocketOnError(outcome)
    \/ SocketThreadEnd
    \/ \E t \in SeqToSet(subscriptions) : SocketOnPush(t)

SpecExit == InitExit /\ [][NextExit]_vars

(***************************************************************************)
(* _on_message, the families that only push snapshots (insurance, kline,   *)
(* wallet, candle, realtimes, "depth", "mergedDepth", bookTicker).  The    *)
(* 'data' of a push is a list of records or one record (a dict).           *)
(***************************************************************************)
MaxRecords == 2    \* records carried by the 'data' list of one snapshot push
MaxSnapFrames == 2 \* snapshot pushes dispatched in one behaviour

SnapTopic == "klineV2.1.BTCUSD"
SpotV2Url == "wss://stream.bybit.com/spot/quote/ws/v2"
Records == {1, 2}

\* `'v2' in self.endpoint`
HasV2(e) == e = SpotV2Url

\* the whole message, whose 'data' is payload
SnapEnv(payload) == [kind |-> "env", items |-> <<payload>>]

\* `if 'v2' in self.endpoint: self.data[topic] = msg_json['data'] if
\* self.trim else msg_json; else: self.data[topic] = msg_json['data'][0] if
\* self.trim else msg_json`
SnapshotReduce(cur, payload) ==
    IF ~trim THEN [value |-> SnapEnv(payload), raised |-> "none"]
    ELSE IF HasV2(endpoint) THEN [value |-> payload, raised |-> "none"]
    \* a dict has no key 0, an empty list no first element
    ELSE IF payload.kind = "rec" THEN [value |-> cur, raised |-> "KeyError"]
    ELSE IF payload.items = <<>> THEN [value |-> cur, raised |-> "IndexError"]
    ELSE [value |-> RecOf(payload.items[1]), raised |-> "none"]

OnSnapshotPush(payload) ==
    LET r == SnapshotReduce(data[SnapTopic], payload)
    IN  /\ nframes < MaxSnapFrames
        /\ msg' = [kind |-> "snapshot_push", data |-> payload]
        /\ prev' = data
        /\ data' = [data EXCEPT ![SnapTopic] = r.value]
        /\ raised' = r.raised
        /\ nframes' = nframes + 1
        /\ UNCHANGED <<subscriptions, purge, max_length, trim, wellFormed,
                       fpc, flocal, fcall, nfetch, lastRet, returned,
                       bpc, npushed, dirty, overCap, dictPush>>
        /\ UNCHANGED connVars
        /\ UNCHANGED pureVars
        /\ UNCHANGED stepVars
        /\ UNCHANGED mgrVars

(***************************************************************************)
(* SpecSnapshot: one WebSocket on a futures or on the spot v2 endpoint,    *)
(* subscribed to one snapshot-only topic, with trim_data on or off; the    *)
(* background thread reduces one push after the other.                     *)
(***************************************************************************)
InitSnapshot ==
    /\ subscriptions = <<SnapTopic>>
    /\ data = [t \in {SnapTopic} |-> EmptyDict]
    /\ purge = TRUE
    /\ max_length = 1
    /\ trim \in BOOLEAN
    /\ raised = "none"
    /\ prev = data
    /\ nframes = 0
    /\ wellFormed = TRUE
    /\ msg = [kind |-> "none"]
    /\ ThreadsIdle
    /\ endpoint \in {Url, SpotV2Url}
    /\ mode = (IF HasV2(endpoint) THEN "spot" ELSE "futures")
    /\ api_key = FALSE
    /\ handle_error = FALSE
    /\ exited = FALSE
    /\ auth = FALSE
    /\ sock = "connected"
    /\ wsThread = "running"
    /\ wsGen = 1
    /\ connUrl = endpoint
    /\ frames = <<>>
    /\ exitCalled = FALSE
    /\ genAtExit = 0
    /\ nerrors = 0
    /\ nrecon = 0
    /\ resetStamp = 0
    /\ pushedSince = {}
    /\ lastOp = "init"
    /\ PureUnused
    /\ StepUnused
    /\ MgrUnused

\* the 'data' values tried
SnapPayloads ==
    {ListOf(l) : l \in SeqsUpTo(Records, MaxRecords)} \cup {RecOf(r) : r \in Records}

NextSnapshot ==
    \E payload \in SnapPayloads : OnSnapshotPush(payload)

SpecSnapshot == InitSnapshot /\ [][NextSnapshot]_vars

(***************************************************************************)
(* _on_message, order/stop_order branch.  The private topics are named     *)
(* 'order' and 'stop_order'; an entry carries its symbol, its id under the *)
(* field the exchange uses for that symbol, and `rev`, the number of the   *)
(* entry among all entries pushed (a later state of the order has a        *)
(* larger rev).                                                            *)
(***************************************************************************)
MaxOrderPush == 2     \* entries carried by one order push
MaxOrderFrames == 3   \* order frames dispatched in one behaviour
MaxOrderEntries == 4  \* entries pushed in one behaviour

OrderTopics == {"order", "stop_order"}
LinearUrl == "wss://stream.bybit.com/realtime_private"
OrderIds == {1, 2}

\* the symbols traded on the endpoint
SymbolOf(e) == IF e = LinearUrl THEN "BTCUSDT" ELSE "BTCUSD"

\* `i['symbol'].endswith('USDT')`
EndsWithUSDT(symbol) == symbol = "BTCUSDT"

\* `ord_id = topic + '_id' if i['symbol'].endswith('USDT') else 'order_id'`
OrdId(topic, symbol) == IF EndsWithUSDT(symbol) THEN topic \o "_id" ELSE "order_id"

\* one pushed entry: a function from its field names
OrderEntry(topic, symbol, i, n) ==
    [f \in {"symbol", OrdId(topic, symbol), "rev"} |->
        IF f = "symbol" THEN symbol ELSE IF f = "rev" THEN n ELSE i]

\* the body of `for i in msg_json['data']:` for entry k of the push `list`.
\* Enumerating the placeholder {} finds nothing (StopIteration), it has no
\* append (AttributeError), and the cache becomes the pushed list itself.
OrderEntryStep(topic, cur, list, k) ==
    IF cur.kind = "list"
    THEN LET i == list[k]
             index == FindIndex(cur.items, i, OrdId(topic, i["symbol"]))
         IN  IF index # 0
             THEN ListOf([cur.items EXCEPT ![index] = i])
             ELSE ListOf(Append(cur.items, i))
    ELSE ListOf(list)

\* the loop from entry k on
RECURSIVE OrderReduce(_, _, _, _)
OrderReduce(topic, cur, list, k) ==
    IF k > Len(list) THEN cur
    ELSE OrderReduce(topic, OrderEntryStep(topic, cur, list, k), list, k + 1)

OrderTopic == subscriptions[1]

OnOrderPush(ids) ==
    LET topic == OrderTopic
        list == [k \in 1..Len(ids) |->
                    OrderEntry(topic, SymbolOf(endpoint), ids[k], npushed + k)]
    IN  /\ nframes < MaxOrderFrames
        /\ npushed + Len(ids) <= MaxOrderEntries
        /\ npushed' = npushed + Len(ids)
        /\ msg' = [kind |-> "order_push", data |-> list]
        /\ prev' = data
        /\ data' = [data EXCEPT ![topic] = OrderReduce(topic, data[topic], list, 1)]
        /\ raised' = "none"
        /\ nframes' = nframes + 1
        /\ UNCHANGED <<subscriptions, purge, max_length, trim, wellFormed,
                       fpc, flocal, fcall, nfetch, lastRet, returned,
                       bpc, dirty, overCap, dictPush>>
        /\ UNCHANGED connVars
        /\ UNCHANGED pureVars
        /\ UNCHANGED stepVars
        /\ UNCHANGED mgrVars

(***************************************************************************)
(* SpecOrder: one authenticated WebSocket on the inverse or on the linear  *)
(* private endpoint, subscribed to 'order' or to 'stop_order'; the         *)
(* background thread reduces one push after the other.                     *)
(***************************************************************************)
InitOrder ==
    /\ \E t \in OrderTopics :
        /\ subscriptions = <<t>>
        /\ data = [u \in {t} |-> EmptyDict]
    /\ purge = TRUE
    /\ max_length = 1
    /\ trim = TRUE
    /\ raised = "none"
    /\ prev = data
    /\ nframes = 0
    /\ wellFormed = TRUE
    /\ msg = [kind |-> "none"]
    /\ ThreadsIdle
    /\ endpoint \in {Url, LinearUrl}
    /\ mode = "futures"
    /\ api_key = TRUE
    /\ handle_error = FALSE
    /\ exited = FALSE
    /\ auth = TRUE
    /\ sock = "connected"
    /\ wsThread = "running"
    /\ wsGen = 1
    /\ connUrl = endpoint
    /\ frames = <<>>
    /\ exitCalled = FALSE
    /\ genAtExit = 0
    /\ nerrors = 0
    /\ nrecon = 0
    /\ resetStamp = 0
    /\ pushedSince = {}
    /\ lastOp = "init"
    /\ PureUnused
    /\ StepUnused
    /\ MgrUnused

\* entries the next push may carry
OrderRoom ==
    IF MaxOrderEntries - npushed < MaxOrderPush
    THEN MaxOrderEntries - npushed ELSE MaxOrderPush

NextOrder ==
    \E ids \in SeqsUpTo(OrderIds, OrderRoom) : OnOrderPush(ids)

SpecOrder == InitOrder /\ [][NextOrder]_vars

(***************************************************************************)
(* _on_message, instrument_info branch.  The cached value is a Python      *)
(* dict, modelled as [kind |-> "dict", items |-> f] with f a function from *)
(* the keys present to their values; the placeholder {} is EmptyDict.      *)
(***************************************************************************)
MaxInstrFrames == 3   \* instrument_info frames dispatched in one behaviour

InstrTopic == "instrument_info.100ms.BTCUSD"
InstrFields == {"last_price", "mark_price"}
InstrValues == {1, 2}

DictOf(f) == [kind |-> "dict", items |-> f]

\* the instrument maps a snapshot may carry, and the field maps of a delta
InstrSnapshots == [InstrFields -> InstrValues]
InstrUpdates == UNION {[F -> InstrValues] : F \in (SUBSET InstrFields) \ {{}}}

\* the whole message of a snapshot push
InstrEnv(S) ==
    [k \in {"topic", "type", "data"} |->
        IF k = "topic" THEN InstrTopic ELSE IF k = "type" THEN "snapshot" ELSE S]

\* `for i in u: d[i] = u[i]`
MergeInto(d, u) ==
    [k \in DOMAIN d \cup DOMAIN u |-> IF k \in DOMAIN u THEN u[k] ELSE d[k]]

\* `self.data[topic] = msg_json['data'] if self.trim else msg_json`
InstrSnapshot(S) == IF trim THEN DictOf(S) ELSE DictOf(InstrEnv(S))

\* `for i in msg_json['data']['update'][0]: self.data[topic][i] = ...`;
\* an empty 'update' list has no element 0
InstrDelta(cur, update) ==
    IF update = <<>> THEN [value |-> cur, raised |-> "IndexError"]
    ELSE [value |-> DictOf(MergeInto(cur.items, update[1])), raised |-> "none"]

OnInstrSnapshot(S) ==
    /\ nframes < MaxInstrFrames
    /\ msg' = [kind |-> "instr_snapshot", data |-> S]
    /\ prev' = data
    /\ data' = [data EXCEPT ![InstrTopic] = InstrSnapshot(S)]
    /\ raised' = "none"
    /\ nframes' = nframes + 1
    /\ UNCHANGED <<subscriptions, purge, max_length, trim, wellFormed,
                   fpc, flocal, fcall, nfetch, lastRet, returned,
                   bpc, npushed, dirty, overCap, dictPush>>
    /\ UNCHANGED connVars
    /\ UNCHANGED pureVars
    /\ UNCHANGED stepVars
    /\ UNCHANGED mgrVars

OnInstrDelta(update) ==
    LET r == InstrDelta(data[InstrTopic], update)
    IN  /\ nframes < MaxInstrFrames
        /\ msg' = [kind |-> "instr_delta", update |-> update]
        /\ prev' = data
        /\ data' = [data EXCEPT ![InstrTopic] = r.value]
        /\ raised' = r.raised
        /\ nframes' = nframes + 1
        /\ UNCHANGED <<subscriptions, purge, max_length, trim, wellFormed,
                       fpc, flocal, fcall, nfetch, lastRet, returned,
                       bpc, npushed, dirty, overCap, dictPush>>
        /\ UNCHANGED connVars
        /\ UNCHANGED pureVars
        /\ UNCHANGED stepVars
        /\ UNCHANGED mgrVars

(***************************************************************************)
(* SpecInstr: one futures WebSocket subscribed to one instrument_info      *)
(* topic, with trim_data on or off; the background thread reduces one push *)
(* after the other.                                                        *)
(***************************************************************************)
InitInstr ==
    /\ subscriptions = <<InstrTopic>>
    /\ data = [t \in {InstrTopic} |-> EmptyDict]
    /\ purge = TRUE
    /\ max_length = 1
    /\ trim \in BOOLEAN
    /\ raised = "none"
    /\ prev = data
    /\ nframes = 0
    /\ wellFormed = TRUE
    /\ msg = [kind |-> "none"]
    /\ ThreadsIdle
    /\ ConnSteady
    /\ PureUnused
    /\ StepUnused
    /\ MgrUnused

NextInstr ==
    \/ \E S \in InstrSnapshots : OnInstrSnapshot(S)
    \/ \E update \in SeqsUpTo(InstrUpdates, 1) : OnInstrDelta(update)

SpecInstr == InitInstr /\ [][NextInstr]_vars

(***************************************************************************)
(* FuturesWebSocketManager (src/pybit/websocket_stream.py): subscribe, the *)
(* callback directory, and the lifecycle inherited from WebSocketManager.  *)
(* A topic string is the sequence of its dot-separated segments:           *)
(* "trade.{}" is <<"trade", "{}">> and "position" is <<"position">>.       *)
(***************************************************************************)
MaxSubs == 2       \* subscribe calls made in one behaviour

private_topics == {<<"position">>, <<"execution">>, <<"order">>, <<"stop_order">>,
                   <<"wallet">>}
symbol_wildcard == "*"

\* the topics handed to subscribe: trade_stream, position_stream, and
\* custom_topic_stream with a full topic string
Templates == {<<"trade", "{}">>, <<"position">>, <<"trade", "BTCUSD">>}
SymbolLists == {<<>>, <<"BTCUSD">>, <<"ETHUSD">>}
Callbacks == {"cb1", "cb2"}

\* topic.format(symbol)
Format(topic, symbol) ==
    [i \in 1..Len(topic) |-> IF topic[i] = "{}" THEN symbol ELSE topic[i]]

\* prepare_subscription_args(list_of_symbols) on a manager whose ws_name is
\* not USDT_PERPETUAL
PrepareSubscriptionArgs(topic, list_of_symbols) ==
    IF topic \in private_topics
    THEN <<topic>>
    ELSE IF list_of_symbols = <<>>
    THEN <<Format(topic, symbol_wildcard)>>
    ELSE [i \in 1..Len(list_of_symbols) |-> Format(topic, list_of_symbols[i])]

\* _extract_topic(topic_string): a private topic as it is, otherwise the
\* longest prefix that a dot follows; without a dot re.match gives None and
\* the subscript raises TypeError
ExtractTopic(topic_string) ==
    IF topic_string \in private_topics THEN topic_string
    ELSE IF Len(topic_string) < 2 THEN "TypeError"
    ELSE SubSeq(topic_string, 1, Len(topic_string) - 1)

\* _check_callback_directory(topics): TRUE when it raises
CheckCallbackDirectory(topics) ==
    \E i \in 1..Len(topics) : topics[i] \in DOMAIN callback_directory

\* self.callback_directory[key] = callback_function
SetKey(dir, key, callback) ==
    [k \in DOMAIN dir \cup {key} |-> IF k = key THEN callback ELSE dir[k]]

\* self.callback_directory.pop(key)
PopKey(dir, key) == [k \in DOMAIN dir \ {key} |-> dir[k]]

\* the formatted topics registered on the current socket: listed by a
\* subscribe call that returned, and not rejected by the server
Registered ==
    UNION {SeqToSet(frames[i].args) :
              i \in {j \in 1..Len(frames) : /\ frames[j].op = "subscribe"
                                            /\ frames[j].reg
                                            /\ frames[j].ack # "fail"}}

mgrIdle == <<data, subscriptions, purge, max_length, trim, lastRet, npushed, mode,
             nrecon, resetStamp, pushedSince>>

\* subscribe(topic, callback, symbol)
Subscribe(topic, callback, symbol) ==
    LET subscription_args == PrepareSubscriptionArgs(topic, symbol)
        dup == \E i \in 1..Len(subscription_args) : subscription_args[i] \in Registered
        key == ExtractTopic(topic)
        frame == [op |-> "subscribe", args |-> subscription_args, ack |-> "none",
                  reg |-> key # "TypeError", cb |-> callback]
        note(r, sent, dir) == [args |-> subscription_args, dup |-> dup, sent |-> sent,
                               raised |-> r, changed |-> dir # callback_directory]
    IN  /\ nsubs < MaxSubs
        /\ nsubs' = nsubs + 1
        /\ lastOp' = "subscribe"
        /\ IF CheckCallbackDirectory(subscription_args)
           THEN /\ raised' = "Exception"
                /\ lastSub' = note("Exception", FALSE, callback_directory)
                /\ UNCHANGED <<frames, callback_directory>>
           ELSE IF sock # "connected"
           THEN /\ raised' = "WebSocketConnectionClosedException"
                /\ lastSub' = note("WebSocketConnectionClosedException", FALSE,
                                   callback_directory)
                /\ UNCHANGED <<frames, callback_directory>>
           ELSE IF key = "TypeError"
           THEN /\ raised' = "TypeError"
                /\ frames' = Append(frames, frame)
                /\ lastSub' = note("TypeError", TRUE, callback_directory)
                /\ UNCHANGED callback_directory
           ELSE /\ raised' = "none"
                /\ frames' = Append(frames, frame)
                /\ callback_directory' = SetKey(callback_directory, key, callback)
                /\ lastSub' = note("none", TRUE, SetKey(callback_directory, key, callback))
        /\ UNCHANGED <<api_key, handle_error, endpoint, exited, auth, sock, wsThread, wsGen,
                       connUrl, exitCalled, genAtExit, nerrors, delivered>>
        /\ UNCHANGED mgrIdle
        /\ UNCHANGED histVars
        /\ UNCHANGED pureVars
        /\ UNCHANGED stepVars

\* _handle_incoming_message for the answer to the subscribe frame frames[i]
ManagerOnSubAck(i, success) ==
    /\ sock = "connected"
    /\ wsThread = "running"
    /\ i \in 1..Len(frames)
    /\ frames[i].op = "subscribe"
    /\ frames[i].ack = "none"
    /\ lastOp' = "sub_ack"
    /\ IF success
       THEN /\ frames' = [frames EXCEPT ![i].ack = "ok"]
            /\ raised' = "none"
            /\ UNCHANGED callback_directory
       ELSE LET key == ExtractTopic(frames[i].args[1])
            IN  /\ frames' = [frames EXCEPT ![i].ack = "fail"]
                /\ IF key = "TypeError"
                   THEN raised' = "TypeError" /\ UNCHANGED callback_directory
                   ELSE IF key \notin DOMAIN callback_directory
                   THEN raised' = "KeyError" /\ UNCHANGED callback_directory
                   ELSE /\ raised' = "none"
                        /\ callback_directory' = PopKey(callback_directory, key)
    /\ UNCHANGED <<api_key, handle_error, endpoint, exited, auth, sock, wsThread, wsGen,
                   connUrl, exitCalled, genAtExit, nerrors, nsubs, lastSub, delivered>>
    /\ UNCHANGED mgrIdle
    /\ UNCHANGED histVars
    /\ UNCHANGED pureVars
    /\ UNCHANGED stepVars

\* _handle_incoming_message for the answer to the auth frame
ManagerOnAuthAck(success) ==
    /\ sock = "connected"
    /\ wsThread = "running"
    /\ \E i \in 1..Len(frames) : frames[i].op = "auth"
    /\ auth' = (auth \/ success)
    /\ lastOp' = "auth_ack"
    /\ raised' = "none"
    /\ UNCHANGED <<api_key, handle_error, endpoint, exited, sock, wsThread, wsGen,
                   connUrl, frames, exitCalled, genAtExit, nerrors>>
    /\ UNCHANGED mgrVars
    /\ UNCHANGED mgrIdle
    /\ UNCHANGED histVars
    /\ UNCHANGED pureVars
    /\ UNCHANGED stepVars

\* _handle_incoming_message for a data push of the formatted topic t
ManagerOnPush(t) ==
    /\ sock = "connected"
    /\ wsThread = "running"
    /\ t \in Registered
    /\ lastOp' = "push"
    /\ LET key == ExtractTopic(t)
       IN  IF key = "TypeError"
           THEN raised' = "TypeError" /\ UNCHANGED delivered
           ELSE IF key \notin DOMAIN callback_directory
           THEN raised' = "KeyError" /\ UNCHANGED delivered
           ELSE /\ raised' = "none"
                /\ delivered' = [topic |-> t, callback |-> callback_directory[key]]
    /\ UNCHANGED <<api_key, handle_error, endpoint, exited, auth, sock, wsThread, wsGen,
                   connUrl, frames, exitCalled, genAtExit, nerrors, callback_directory,
                   nsubs, lastSub>>
    /\ UNCHANGED mgrIdle
    /\ UNCHANGED histVars
    /\ UNCHANGED pureVars
    /\ UNCHANGED stepVars

\* WebSocketManager._connect(url) with the transport's answer
ManagerConnect(outcome) ==
    IF outcome = "timeout"
    THEN [frames |-> <<>>, sock |-> ExitEffect.sock, exited |-> ExitEffect.exited,
          raised |-> "WebSocketTimeoutException"]
    ELSE [frames |-> IF api_key THEN <<AuthFrame>> ELSE <<>>,
          sock |-> "connected", exited |-> FALSE, raised |-> "none"]

\* WebSocketManager.exit(), called by the application
ManagerExit ==
    /\ sock' = ExitEffect.sock
    /\ exited' = ExitEffect.exited
    /\ exitCalled' = TRUE
    /\ genAtExit' = wsGen
    /\ lastOp' = "exit"
    /\ raised' = "none"
    /\ UNCHANGED <<api_key, handle_error, endpoint, auth, wsThread, wsGen, connUrl,
                   frames, nerrors>>
    /\ UNCHANGED mgrVars
    /\ UNCHANGED mgrIdle
    /\ UNCHANGED histVars
    /\ UNCHANGED pureVars
    /\ UNCHANGED stepVars

\* WebSocketManager._on_error(error) on the thread of self.ws: exit() unless
\* already exited, then, with restart_on_error, _reset() and
\* _connect(self.endpoint); reading an attribute that was never assigned
\* raises AttributeError
ManagerOnError ==
    /\ wsThread = "running"
    /\ nerrors < MaxErrors
    /\ nerrors' = nerrors + 1
    /\ lastOp' = "on_error"
    /\ IF handle_error /\ endpoint = "unset"
       THEN /\ exited' = FALSE
            /\ auth' = FALSE
            /\ sock' = ExitEffect.sock
            /\ raised' = "AttributeError"
            /\ wsThread' = "ended"
            /\ UNCHANGED <<frames, wsGen, connUrl>>
       ELSE IF handle_error
       THEN \E outcome \in {"connected", "timeout"} :
               LET c == ManagerConnect(outcome)
               IN  /\ exited' = c.exited
                   /\ auth' = FALSE
                   /\ sock' = c.sock
                   /\ raised' = c.raised
                   /\ frames' = c.frames
                   /\ wsGen' = wsGen + 1
                   /\ connUrl' = endpoint
                   /\ wsThread' = "running"
       ELSE /\ exited' = ExitEffect.exited
            /\ sock' = ExitEffect.sock
            /\ raised' = "none"
            /\ wsThread' = "ended"
            /\ UNCHANGED <<auth, frames, wsGen, connUrl>>
    /\ UNCHANGED <<api_key, handle_error, endpoint, exitCalled, genAtExit>>
    /\ UNCHANGED mgrVars
    /\ UNCHANGED mgrIdle
    /\ UNCHANGED histVars
    /\ UNCHANGED pureVars
    /\ UNCHANGED stepVars

\* the thread of a closed socket ends without reporting an error
ManagerThreadEnd ==
    /\ wsThread = "running"
    /\ sock = "none"
    /\ wsThread' = "ended"
    /\ lastOp' = "thread_end"
    /\ UNCHANGED <<raised, api_key, handle_error, endpoint, exited, auth, sock, wsGen,
                   connUrl, frames, exitCalled, genAtExit, nerrors>>
    /\ UNCHANGED mgrVars
    /\ UNCHANGED mgrIdle
    /\ UNCHANGED histVars
    /\ UNCHANGED pureVars
    /\ UNCHANGED stepVars

(***************************************************************************)
(* SpecManager: a FuturesWebSocketManager as its constructor leaves it     *)
(* (restart_on_error is the default True, the url is a local of __init__   *)
(* and self.endpoint is not assigned), while the application subscribes    *)
(* and exits and the transport answers, pushes and fails.                  *)
(***************************************************************************)
InitManager ==
    /\ api_key \in BOOLEAN
    /\ handle_error = TRUE
    /\ endpoint = "unset"
    /\ callback_directory = <<>>
    /\ LET c == ManagerConnect("connected")
       IN  /\ frames = c.frames
           /\ sock = c.sock
           /\ exited = c.exited
           /\ raised = c.raised
    /\ auth = FALSE
    /\ wsThread = "running"
    /\ wsGen = 1
    /\ connUrl = Url
    /\ exitCalled = FALSE
    /\ genAtExit = 0
    /\ nerrors = 0
    /\ lastOp = "init"
    /\ nsubs = 0
    /\ lastSub = [args |-> <<>>, dup |-> FALSE, sent |-> FALSE, raised |-> "none",
                  changed |-> FALSE]
    /\ delivered = [topic |-> <<>>, callback |-> "none"]
    /\ mode = "futures"
    /\ data = <<>>
    /\ subscriptions = <<>>
    /\ purge = FALSE
    /\ trim = TRUE
    /\ max_length = MaxCap
    /\ npushed = 0
    /\ nrecon = 0
    /\ resetStamp = 0
    /\ pushedSince = {}
    /\ lastRet = [val |-> NoneValue, clean |-> FALSE, atCall |-> NoneValue]
    /\ HistUnused
    /\ PureUnused
    /\ StepUnused

NextManager ==
    \/ \E topic \in Templates, callback \in Callbacks, symbol \in SymbolLists :
           Subscribe(topic, callback, symbol)
    \/ \E i \in 1..MaxSubs + 1, success \in BOOLEAN : ManagerOnSubAck(i, success)
    \/ \E success \in BOOLEAN : ManagerOnAuthAck(success)
    \/ \E t \in Registered : ManagerOnPush(t)
    \/ ManagerExit
    \/ ManagerOnError
    \/ ManagerThreadEnd

SpecManager == InitManager /\ [][NextManager]_vars

(***************************************************************************)
(* FuturesWebSocketManager.subscribe statement by statement, on the        *)
(* caller's thread: the directory check and `self.ws.send(...)`, then      *)
(* `self._set_callback(topic, callback)`.  The thread of self.ws may       *)
(* dispatch the server's answer to the frame in between.                   *)
(***************************************************************************)
\* subscribe up to and including `self.ws.send(...)`
SubscribeSend(topic, callback, symbol) ==
    LET subscription_args == PrepareSubscriptionArgs(topic, symbol)
        dup == \E i \in 1..Len(subscription_args) : subscription_args[i] \in Registered
        frame == [op |-> "subscribe", args |-> subscription_args, ack |-> "none",
                  reg |-> FALSE, cb |-> callback]
        note(r, sent) == [args |-> subscription_args, dup |-> dup, sent |-> sent,
                          raised |-> r, changed |-> FALSE]
    IN  /\ spc = "idle"
        /\ nsubs < MaxSubs
        /\ nsubs' = nsubs + 1
        /\ lastOp' = "subscribe_send"
        /\ pin' = [topic |-> topic, callback |-> callback, frame |-> Len(frames) + 1]
        /\ IF CheckCallbackDirectory(subscription_args)
           THEN /\ raised' = "Exception"
                /\ lastSub' = note("Exception", FALSE)
                /\ UNCHANGED <<frames, spc>>
           ELSE IF sock # "connected"
           THEN /\ raised' = "WebSocketConnectionClosedException"
                /\ lastSub' = note("WebSocketConnectionClosedException", FALSE)
                /\ UNCHANGED <<frames, spc>>
           ELSE /\ raised' = "none"
                /\ frames' = Append(frames, frame)
                /\ lastSub' = note("none", TRUE)
                /\ spc' = "set"
        /\ UNCHANGED <<api_key, handle_error, endpoint, exited, auth, sock, wsThread, wsGen,
                       connUrl, exitCalled, genAtExit, nerrors, delivered,
                       callback_directory>>
        /\ UNCHANGED <<cpc, retries, connNote, xpc, pout>>
        /\ UNCHANGED mgrIdle
        /\ UNCHANGED histVars

\* `self._set_callback(topic, callback)`, and subscribe returns
SubscribeSet ==
    LET key == ExtractTopic(pin.topic)
        dir == IF key = "TypeError" THEN callback_directory
               ELSE SetKey(callback_directory, key, pin.callback)
    IN  /\ spc = "set"
        /\ spc' = "idle"
        /\ lastOp' = "subscribe"
        /\ raised' = IF key = "TypeError" THEN "TypeError" ELSE "none"
        /\ callback_directory' = dir
        /\ frames' = [frames EXCEPT ![pin.frame].reg = key # "TypeError"]
        /\ lastSub' = [lastSub EXCEPT !.raised = raised',
                                      !.changed = dir # callback_directory]
        /\ UNCHANGED <<api_key, handle_error, endpoint, exited, auth, sock, wsThread, wsGen,
                       connUrl, exitCalled, genAtExit, nerrors, delivered, nsubs>>
        /\ UNCHANGED <<cpc, retries, connNote, xpc, pin, pout>>
        /\ UNCHANGED mgrIdle
        /\ UNCHANGED histVars

(***************************************************************************)
(* SpecSubscribe: a FuturesWebSocketManager whose application subscribes   *)
(* while the thread of self.ws dispatches the answers and the pushes.      *)
(***************************************************************************)
InitSubscribe == InitManager

NextSubscribe ==
    \/ \E topic \in Templates, callback \in Callbacks, symbol \in SymbolLists :
           SubscribeSend(topic, callback, symbol)
    \/ SubscribeSet
    \/ \E i \in 1..MaxSubs + 1, success \in BOOLEAN : ManagerOnSubAck(i, success)
    \/ \E t \in Registered : ManagerOnPush(t)

SpecSubscribe == InitSubscribe /\ [][NextSubscribe]_vars

(***************************************************************************)
(* _on_error and _connect of pybit.WebSocket step by step: _connect polls  *)
(* self.ws.sock once a second while the thread of the new WebSocketApp      *)
(* connects, and the application keeps calling fetch meanwhile.            *)
(***************************************************************************)
Retries == 10      \* `retries = 10` in _connect

\* _on_error(error) up to the retry loop of _connect: exit() unless already
\* exited; with restart_on_error _reset(), then _connect creates the
\* WebSocketApp, starts its thread and sets retries
ReconOnError ==
    /\ cpc = "idle"
    /\ wsThread = "running"
    /\ nerrors < MaxErrors
    /\ nerrors' = nerrors + 1
    /\ lastOp' = "on_error"
    /\ raised' = "none"
    /\ IF handle_error
       THEN /\ exited' = FALSE
            /\ auth' = FALSE
            /\ data' = ResetData(data)
            /\ sock' = "none"
            /\ frames' = <<>>
            /\ wsGen' = wsGen + 1
            /\ connUrl' = endpoint
            /\ wsThread' = "running"
            /\ resetStamp' = npushed
            /\ pushedSince' = {}
            /\ retries' = Retries
            /\ cpc' = "wait"
       ELSE /\ sock' = ExitEffect.sock
            /\ exited' = ExitEffect.exited
            /\ wsThread' = "ended"
            /\ UNCHANGED <<auth, data, frames, wsGen, connUrl, resetStamp, pushedSince,
                           retries, cpc>>
    /\ UNCHANGED <<xpc, spc>>
    /\ UNCHANGED <<subscriptions, purge, max_length, trim, lastRet, npushed, mode, api_key,
                   handle_error, endpoint, exitCalled, genAtExit, nrecon, connNote>>
    /\ UNCHANGED histVars
    /\ UNCHANGED pureVars
    /\ UNCHANGED mgrVars

\* the thread of the new WebSocketApp gets its socket connected
TransportUp ==
    /\ cpc = "wait"
    /\ wsThread = "running"
    /\ sock = "none"
    /\ sock' = "connected"
    /\ lastOp' = "transport_up"
    /\ UNCHANGED <<data, subscriptions, purge, max_length, trim, raised, lastRet, npushed,
                   mode, api_key, handle_error, endpoint, exited, auth, wsThread, wsGen,
                   connUrl, frames, exitCalled, genAtExit, nerrors, nrecon, resetStamp,
                   pushedSince>>
    /\ UNCHANGED stepVars
    /\ UNCHANGED histVars
    /\ UNCHANGED pureVars
    /\ UNCHANGED mgrVars

\* one turn of `while retries > 0 and (not self.ws.sock or not
\* self.ws.sock.connected): retries -= 1; time.sleep(1)`
ConnectSleep ==
    /\ cpc = "wait"
    /\ retries > 0 /\ sock # "connected"
    /\ retries' = retries - 1
    /\ lastOp' = "connect_sleep"
    /\ UNCHANGED <<data, subscriptions, purge, max_length, trim, raised, lastRet, npushed,
                   mode, api_key, handle_error, endpoint, exited, auth, sock, wsThread, wsGen,
                   connUrl, frames, exitCalled, genAtExit, nerrors, nrecon, resetStamp,
                   pushedSince, cpc, connNote, xpc, spc>>
    /\ UNCHANGED histVars
    /\ UNCHANGED pureVars
    /\ UNCHANGED mgrVars

\* the loop condition is false: `if retries <= 0: self.exit(); raise
\* WebSocketTimeoutException`, otherwise authentication, subscription and
\* topic initialisation
ConnectLeave ==
    /\ cpc = "wait"
    /\ ~(retries > 0 /\ sock # "connected")
    /\ LET c == SocketConnect(subscriptions, data,
                              IF retries <= 0 THEN "timeout" ELSE "connected")
       IN  /\ subscriptions' = c.subscriptions
           /\ data' = c.data
           /\ frames' = c.frames
           /\ sock' = c.sock
           /\ exited' = c.exited
           /\ raised' = c.raised
           /\ nrecon' = IF c.raised = "none" THEN nrecon + 1 ELSE nrecon
           /\ connNote' = [up |-> sock = "connected",
                           timeout |-> c.raised = "WebSocketTimeoutException",
                           left |-> retries]
    /\ cpc' = "idle"
    /\ lastOp' = "connect_left"
    /\ UNCHANGED <<purge, max_length, trim, lastRet, npushed, mode, api_key, handle_error,
                   endpoint, auth, wsThread, wsGen, connUrl, exitCalled, genAtExit, nerrors,
                   resetStamp, pushedSince, retries, xpc, spc>>
    /\ UNCHANGED histVars
    /\ UNCHANGED pureVars
    /\ UNCHANGED mgrVars

(***************************************************************************)
(* SpecReconnect: a constructed WebSocket with restart_on_error, polled by *)
(* the application while the transport pushes and fails and _connect waits *)
(* for the new socket.                                                     *)
(***************************************************************************)
InitReconnect ==
    /\ InitSocket
    /\ handle_error
    /\ purge

NextReconnect ==
    \/ ReconOnError
    \/ TransportUp
    \/ ConnectSleep
    \/ ConnectLeave
    \/ SocketThreadEnd
    \/ \E t \in SeqToSet(subscriptions) : SocketOnPush(t)
    \/ \E arg \in FetchArgs : SocketFetch(arg)

SpecReconnect == InitReconnect /\ [][NextReconnect]_vars

(***************************************************************************)
(* The end of _connect on the caller's thread, `for topic in topics: if    *)
(* topic not in self.data: self.data[topic] = {}`, after the subscribe     *)
(* frame was sent.  The test and the assignment are two steps of the       *)
(* interpreter; the thread of self.ws may reduce a push in between.  Here  *)
(* self.data is a function from the keys present.                          *)
(***************************************************************************)
\* d[key] = value
SetItem(d, key, value) ==
    [k \in DOMAIN d \cup {key} |-> IF k = key THEN value ELSE d[k]]

\* `if topic not in self.data:`
PlaceholderCheck ==
    /\ cpc = "check"
    /\ cpc' = (IF BookTopic \notin DOMAIN data THEN "assign" ELSE "idle")
    /\ lastOp' = "placeholder_check"
    /\ UNCHANGED <<data, subscriptions, purge, max_length, trim, raised, lastRet, npushed,
                   mode, api_key, handle_error, endpoint, exited, auth, sock, wsThread,
                   wsGen, connUrl, frames, exitCalled, genAtExit, nerrors, nrecon,
                   resetStamp, pushedSince, retries, connNote, xpc, spc>>
    /\ UNCHANGED histVars
    /\ UNCHANGED pureVars
    /\ UNCHANGED mgrVars

\* `self.data[topic] = {}`, and _connect returns
PlaceholderAssign ==
    /\ cpc = "assign"
    /\ cpc' = "idle"
    /\ data' = SetItem(data, BookTopic, EmptyDict)
    /\ lastOp' = "placeholder_assign"
    /\ UNCHANGED <<subscriptions, purge, max_length, trim, raised, lastRet, npushed,
                   mode, api_key, handle_error, endpoint, exited, auth, sock, wsThread,
                   wsGen, connUrl, frames, exitCalled, genAtExit, nerrors, nrecon,
                   resetStamp, pushedSince, retries, connNote, xpc, spc>>
    /\ UNCHANGED histVars
    /\ UNCHANGED pureVars
    /\ UNCHANGED mgrVars

\* _on_message for an orderBook snapshot push, on the thread of self.ws
PlaceholderOnSnapshot(list) ==
    /\ nframes < MaxBookFrames
    /\ nframes' = nframes + 1
    /\ msg' = [kind |-> "snapshot", list |-> list]
    /\ data' = SetItem(data, BookTopic, BookSnapshot(list))
    /\ raised' = "none"
    /\ lastOp' = "push"
    /\ UNCHANGED <<subscriptions, purge, max_length, trim, lastRet, npushed,
                   mode, api_key, handle_error, endpoint, exited, auth, sock, wsThread,
                   wsGen, connUrl, frames, exitCalled, genAtExit, nerrors, nrecon,
                   resetStamp, pushedSince>>
    /\ UNCHANGED <<prev, wellFormed, fpc, flocal, fcall, nfetch, returned,
                   bpc, dirty, overCap, dictPush>>
    /\ UNCHANGED stepVars
    /\ UNCHANGED pureVars
    /\ UNCHANGED mgrVars

(***************************************************************************)
(* SpecPlaceholder: the constructor of a futures WebSocket subscribed to   *)
(* one orderBook topic has sent its subscribe frame and is about to        *)
(* initialise the topic, while the exchange pushes snapshots.              *)
(***************************************************************************)
InitPlaceholder ==
    /\ subscriptions = <<BookTopic>>
    /\ data = <<>>
    /\ purge = TRUE
    /\ max_length = 1
    /\ trim \in BOOLEAN
    /\ raised = "none"
    /\ prev = data
    /\ nframes = 0
    /\ wellFormed = TRUE
    /\ msg = [kind |-> "none"]
    /\ ThreadsIdle
    /\ mode = "futures"
    /\ api_key = FALSE
    /\ handle_error = FALSE
    /\ endpoint = Url
    /\ exited = FALSE
    /\ auth = FALSE
    /\ sock = "connected"
    /\ wsThread = "running"
    /\ wsGen = 1
    /\ connUrl = Url
    /\ frames = <<[op |-> "subscribe", args |-> <<BookTopic>>, ack |-> "none"]>>
    /\ exitCalled = FALSE
    /\ genAtExit = 0
    /\ nerrors = 0
    /\ nrecon = 0
    /\ resetStamp = 0
    /\ pushedSince = {}
    /\ lastOp = "subscribe_sent"
    /\ cpc = "check"
    /\ retries = Retries
    /\ connNote = [up |-> TRUE, timeout |-> FALSE, left |-> 0]
    /\ xpc = "idle"
    /\ spc = "idle"
    /\ PureUnused
    /\ MgrUnused

NextPlaceholder ==
    \/ PlaceholderCheck
    \/ PlaceholderAssign
    \/ \E list \in SeqsUpTo(PlainEntries, MaxSnap) : PlaceholderOnSnapshot(list)

SpecPlaceholder == InitPlaceholder /\ [][NextPlaceholder]_vars

(***************************************************************************)
(* Subscription acknowledgements on pybit.WebSocket.                       *)
(***************************************************************************)
\* _on_message for the answer to the subscribe frame frames[i]: success or
\* failure is logged, and no field of the object is assigned
SocketOnSubAck(i, success) ==
    /\ sock = "connected"
    /\ wsThread = "running"
    /\ i \in 1..Len(frames)
    /\ frames[i].op = "subscribe"
    /\ frames[i].ack = "none"
    /\ frames' = [frames EXCEPT ![i].ack = IF success THEN "ok" ELSE "fail"]
    /\ lastOp' = "sub_ack"
    /\ raised' = "none"
    /\ UNCHANGED <<data, subscriptions, purge, max_length, trim, lastRet, npushed,
                   mode, api_key, handle_error, endpoint, exited, auth, sock, wsThread,
                   wsGen, connUrl, exitCalled, genAtExit, nerrors, nrecon, resetStamp,
                   pushedSince>>
    /\ UNCHANGED stepVars
    /\ UNCHANGED histVars
    /\ UNCHANGED pureVars
    /\ UNCHANGED mgrVars

\* the topic names the server rejected on the current socket
Rejected ==
    UNION {SeqToSet(frames[i].args) :
              i \in {j \in 1..Len(frames) : /\ frames[j].op = "subscribe"
                                            /\ frames[j].ack = "fail"}}

(***************************************************************************)
(* SpecAck: a constructed WebSocket whose server answers the subscribe     *)
(* frames and pushes while the application polls.                          *)
(***************************************************************************)
InitAck ==
    /\ InitSocket
    /\ ~handle_error

NextAck ==
    \/ \E i \in 1..2, success \in BOOLEAN : SocketOnSubAck(i, success)
    \/ \E f \in AuthAcks : SocketOnAuthAck(f)
    \/ \E t \in SeqToSet(subscriptions) : SocketOnPush(t)
    \/ \E arg \in FetchArgs : SocketFetch(arg)

SpecAck == InitAck /\ [][NextAck]_vars

(***************************************************************************)
(* conform_topic (src/pybit/__init__.py).  A dict is the sequence of its   *)
(* <<key, value>> pairs in insertion order; a value is [s |-> parts] for a *)
(* string (the sequence of the parts it was concatenated from) or          *)
(* [d |-> pairs] for a nested dict.  json.dumps(..., sort_keys=True) is    *)
(* the sequence of pairs ordered by key, nested dicts included.            *)
(***************************************************************************)
MaxExtra == 1      \* non-identifying fields added to each level of a representation

\* no object is involved
ObjectIdle ==
    /\ subscriptions = <<>>
    /\ data = <<>>
    /\ purge = TRUE
    /\ max_length = 1
    /\ trim = TRUE
    /\ raised = "none"
    /\ prev = data
    /\ nframes = 0
    /\ wellFormed = TRUE
    /\ msg = [kind |-> "none"]
    /\ ThreadsIdle
    /\ ConnSteady
    /\ StepUnused
    /\ MgrUnused

Str(x) == [s |-> <<x>>]
Dict(pairs) == [d |-> pairs]

\* the keys that occur, in the order Python compares strings
KeyOrder == <<"binary", "data", "event", "f", "klineType", "params", "realtimeInterval",
              "sendTime", "shared", "symbol", "symbolName", "topic">>
Rank(k) == CHOOSE i \in 1..Len(KeyOrder) : KeyOrder[i] = k

\* d.pop(k, '')
DictPop(pairs, k) == SelectSeq(pairs, LAMBDA q : q[1] # k)
\* d.get(k): None when the key is absent
DictGet(pairs, k) ==
    IF \E i \in 1..Len(pairs) : pairs[i][1] = k
    THEN pairs[CHOOSE i \in 1..Len(pairs) : pairs[i][1] = k][2]
    ELSE [none |-> TRUE]
\* d[k] = v, keeping the position of a key that is present
DictSet(pairs, k, v) ==
    IF \E i \in 1..Len(pairs) : pairs[i][1] = k
    THEN [i \in 1..Len(pairs) |-> IF pairs[i][1] = k THEN <<k, v>> ELSE pairs[i]]
    ELSE Append(pairs, <<k, v>>)

\* the pairs ordered by key
SortKeys(pairs) ==
    [i \in 1..Len(pairs) |->
        pairs[CHOOSE j \in 1..Len(pairs) :
                 Cardinality({k \in 1..Len(pairs) : Rank(pairs[k][1]) < Rank(pairs[j][1])})
                     = i - 1]]

\* json.dumps(topic, sort_keys=True, separators=(',', ':'))
DumpsMutantUnsorted(pairs) == pairs
Dumps(pairs) ==
    SortKeys([i \in 1..Len(pairs) |->
                 IF "d" \in DOMAIN pairs[i][2]
                 THEN <<pairs[i][1], Dict(SortKeys(pairs[i][2].d))>>
                 ELSE pairs[i]])

\* conform_topic(topic) for a dict that carries 'topic' and 'params': the
\* dict as the pops and assignments leave it (they act on the caller's
\* object), and the string returned
ConformStrip(topic) ==
    LET t1 == DictPop(topic, "symbolName")
        p1 == DictPop(DictPop(DictGet(t1, "params").d, "realtimeInterval"), "symbolName")
        kt == DictGet(p1, "klineType")
        hasKt == "s" \in DOMAIN kt
        name == IF hasKt
                THEN [s |-> DictGet(t1, "topic").s \o <<"_">> \o kt.s]
                ELSE DictGet(t1, "topic")
        p2 == IF hasKt THEN DictPop(p1, "klineType") ELSE p1
        t2 == DictSet(DictSet(t1, "params", Dict(p2)), "topic", name)
        t3 == DictPop(DictPop(DictPop(DictPop(t2, "data"), "f"), "sendTime"), "shared")
    IN  t3
ConformTopic(topic) == Dumps(ConformStrip(topic))

\* the logical topics tried, and the fields conform_topic strips
Logical == {[topic |-> "trade", klineType |-> "none"], [topic |-> "kline", klineType |-> "1m"]}
StrippedTop == {"data", "sendTime", "f", "shared", "symbolName"}
StrippedParams == {"realtimeInterval", "symbolName"}

NoRepeat(q) == \A i, j \in 1..Len(q) : q[i] = q[j] => i = j
Reverse(q) == [i \in 1..Len(q) |-> q[Len(q) + 1 - i]]

\* a wire representation of logical topic l: extra stripped fields with
\* payload v, keys in the given or the reverse order
Wire(l, top, par, revTop, revPar, v) ==
    LET pbase == <<<<"symbol", Str("BTCUSDT")>>, <<"binary", Str("false")>>>>
                 \o (IF l.klineType = "none" THEN <<>>
                     ELSE <<<<"klineType", Str(l.klineType)>>>>)
                 \o [i \in 1..Len(par) |-> <<par[i], Str(v)>>]
        params == IF revPar THEN Reverse(pbase) ELSE pbase
        tbase == <<<<"topic", Str(l.topic)>>, <<"params", Dict(params)>>>>
                 \o [i \in 1..Len(top) |-> <<top[i], Str(v)>>]
    IN  IF revTop THEN Reverse(tbase) ELSE tbase

\* the representations of l tried; revs says which key orders
Wires(l, v, revs) ==
    {Wire(l, top, par, revTop, revPar, v) :
        top \in {q \in SeqsUpTo(StrippedTop, MaxExtra) : NoRepeat(q)},
        par \in {q \in SeqsUpTo(StrippedParams, MaxExtra) : NoRepeat(q)},
        revTop \in revs, revPar \in revs}

\* conform_topic applied to the two representations
ConformBoth ==
    /\ pout = <<>>
    /\ pout' = <<ConformTopic(pin.a), ConformTopic(pin.b)>>
    /\ UNCHANGED pin
    /\ UNCHANGED <<data, subscriptions, purge, max_length, trim, raised, prev, nframes,
                   wellFormed>>
    /\ UNCHANGED threadVars
    /\ UNCHANGED connVars
    /\ UNCHANGED stepVars
    /\ UNCHANGED mgrVars

(***************************************************************************)
(* SpecConform: conform_topic applied to two wire representations.         *)
(***************************************************************************)
InitConform ==
    /\ ObjectIdle
    /\ \E la \in Logical, lb \in Logical :
         \E a \in Wires(la, "1", BOOLEAN), b \in Wires(lb, "2", {FALSE}) :
             pin = [a |-> a, b |-> b, la |-> la, lb |-> lb]
    /\ pout = <<>>

NextConform == ConformBoth

SpecConform == InitConform /\ [][NextConform]_vars

(***************************************************************************)
(* A spot subscription from the constructor to fetch.  The application     *)
(* hands the constructor one subscription, a dict or the JSON string of    *)
(* one, and later hands fetch a topic; _connect and conform_topic work on  *)
(* the dict object itself (the caller's, or the one json.loads made, which *)
(* the caller never sees).                                                 *)
(***************************************************************************)
Bool(b) == [b |-> b]
NoneGot == [none |-> TRUE]

\* `not v` is false
Truthy(v) ==
    IF "none" \in DOMAIN v THEN FALSE
    ELSE IF "b" \in DOMAIN v THEN v.b
    ELSE IF "d" \in DOMAIN v THEN v.d # <<>>
    ELSE TRUE

\* str(v).lower()
StrLower(v) == IF "b" \in DOMAIN v THEN Str(IF v.b THEN "true" ELSE "false") ELSE v

\* _connect, spot branch, on one subscription dict: the defaults written
\* before the send, then `subscription.pop('event')`, the binary flag as a
\* lower-case string, and conform_topic.  The result is the dict as it is
\* left.
SpotSubscribe(sub) ==
    LET s1 == IF Truthy(DictGet(sub, "event")) THEN sub ELSE DictSet(sub, "event", Str("sub"))
        s2 == IF Truthy(DictGet(s1, "params")) THEN s1 ELSE DictSet(s1, "params", Dict(<<>>))
        par == DictGet(s2, "params").d
        s3 == IF ~Truthy(DictGet(s2, "binary")) \/ Truthy(DictGet(par, "binary"))
              THEN DictSet(s2, "params", Dict(DictSet(par, "binary", Bool(FALSE))))
              ELSE s2
        s4 == DictPop(s3, "event")
        par4 == DictGet(s4, "params").d
        s5 == DictSet(s4, "params", Dict(DictSet(par4, "binary", StrLower(DictGet(par4, "binary")))))
    IN  ConformStrip(s5)

\* the subscriptions tried: topic and symbol, with or without 'event',
\* with params.binary absent, false or "false", with or without klineType
SpotSpecs ==
    {<<<<"topic", Str(l.topic)>>>>
       \o (IF ev THEN <<<<"event", Str("sub")>>>> ELSE <<>>)
       \o <<<<"params",
              Dict(<<<<"symbol", Str("BTCUSDT")>>>>
                   \o (IF l.klineType = "none" THEN <<>>
                       ELSE <<<<"klineType", Str(l.klineType)>>>>)
                   \o (IF bin = "absent" THEN <<>>
                       ELSE IF bin = "False" THEN <<<<"binary", Bool(FALSE)>>>>
                       ELSE <<<<"binary", Str("false")>>>>))>>>> :
        l \in Logical, ev \in BOOLEAN, bin \in {"absent", "False", "str"}}

\* WebSocket(endpoint, subscriptions=[spec]) on the public spot endpoint:
\* __init__ parses a string, _connect subscribes and stores the conformed
\* key and its placeholder.  pin.obj is the caller's argument afterwards.
SpotInit ==
    LET left == SpotSubscribe(pin.spec)
        key == Dumps(left)
    IN  /\ lastOp = "new"
        /\ subscriptions' = <<key>>
        /\ data' = [k \in {key} |-> EmptyDict]
        /\ pin' = [pin EXCEPT !.obj = IF pin.form = "dict" THEN left ELSE pin.spec]
        /\ sock' = "connected"
        /\ wsThread' = "running"
        /\ wsGen' = 1
        /\ connUrl' = endpoint
        /\ frames' = <<[op |-> "subscribe", args |-> <<pin.spec>>, ack |-> "none"]>>
        /\ lastOp' = "init"
        /\ raised' = "none"
        /\ UNCHANGED <<purge, max_length, trim, prev, nframes, wellFormed, pout,
                       mode, api_key, handle_error, endpoint, exited, auth, exitCalled,
                       genAtExit, nerrors, nrecon, resetStamp, pushedSince>>
        /\ UNCHANGED threadVars
        /\ UNCHANGED stepVars
        /\ UNCHANGED mgrVars

\* fetch(arg): arg is what the caller holds ("given": the object or string
\* handed to the constructor) or a new dict written like the subscription
\* ("written")
SpotFetch(how) ==
    LET arg == IF how = "given" THEN pin.obj ELSE pin.spec
        key == ConformTopic(arg)
        drain == DictGet(pin.spec, "topic") = Str("trade")
    IN  /\ lastOp \in {"init", "fetch"}
        /\ nfetch < MaxFetch
        /\ nfetch' = nfetch + 1
        /\ lastOp' = "fetch"
        /\ raised' = "none"
        /\ pin' = [pin EXCEPT !.obj = IF how = "given" /\ pin.form = "dict"
                                      THEN ConformStrip(pin.obj) ELSE pin.obj,
                              !.how = how]
        /\ IF key \notin SeqToSet(subscriptions)
           THEN pout' = <<NoneValue>> /\ UNCHANGED data
           ELSE IF drain
           THEN pout' = <<PyCopy(data[key])>> /\ data' = Purge(data, key)
           ELSE pout' = <<FetchOther(data, key)>> /\ UNCHANGED data
        /\ UNCHANGED <<subscriptions, purge, max_length, trim, prev, nframes, wellFormed>>
        /\ UNCHANGED <<fpc, flocal, fcall, lastRet, returned, bpc, msg, npushed, dirty,
                       overCap, dictPush>>
        /\ UNCHANGED <<mode, api_key, handle_error, endpoint, exited, auth, sock, wsThread,
                       wsGen, connUrl, frames, exitCalled, genAtExit, nerrors, nrecon,
                       resetStamp, pushedSince>>
        /\ UNCHANGED stepVars
        /\ UNCHANGED mgrVars

(***************************************************************************)
(* SpecSpotKey: one WebSocket on the public spot endpoint constructed with *)
(* one subscription and then polled.                                       *)
(***************************************************************************)
InitSpotKey ==
    /\ subscriptions = <<>>
    /\ data = <<>>
    /\ purge \in BOOLEAN
    /\ max_length = 1
    /\ trim = TRUE
    /\ raised = "none"
    /\ prev = data
    /\ nframes = 0
    /\ wellFormed = TRUE
    /\ msg = [kind |-> "none"]
    /\ ThreadsIdle
    /\ mode = "spot"
    /\ endpoint = SpotV2Url
    /\ api_key = FALSE
    /\ handle_error = FALSE
    /\ exited = FALSE
    /\ auth = FALSE
    /\ sock = "none"
    /\ wsThread = "none"
    /\ wsGen = 0
    /\ connUrl = "none"
    /\ frames = <<>>
    /\ exitCalled = FALSE
    /\ genAtExit = 0
    /\ nerrors = 0
    /\ nrecon = 0
    /\ resetStamp = 0
    /\ pushedSince = {}
    /\ lastOp = "new"
    /\ StepUnused
    /\ MgrUnused
    /\ \E spec \in SpotSpecs, form \in {"dict", "json"} :
          pin = [spec |-> spec, form |-> form, obj |-> spec, how |-> "none"]
    /\ pout = <<>>

NextSpotKey ==
    \/ SpotInit
    \/ \E how \in {"given", "written"} : SpotFetch(how)

SpecSpotKey == InitSpotKey /\ [][NextSpotKey]_vars

(***************************************************************************)
(* SpotWebSocketManager (src/pybit/websocket_stream.py): subscribe, the    *)
(* callback directory keyed by _conform_topic, and the dispatcher.  A      *)
(* topic handed to subscribe is [str |-> name] for a plain string or       *)
(* [dict |-> pairs] for a dict.                                            *)
(***************************************************************************)
SpotV1Url == "wss://stream.bybit.com/spot/quote/ws/v1"
SpotPrivateUrl == "wss://stream.bybit.com/spot/ws"

SpotNames == {"trade", "depth"}
SpotSymbols == {"BTCUSDT", "ETHUSDT"}
SpotPrivateNames == {"outboundAccountInfo", "executionReport", "ticketInfo"}

\* the topic trade_v1_stream, depth_v1_stream (symbol beside params) and
\* trade_v2_stream, depth_v2_stream (symbol inside params) hand to subscribe
SpotStreamTopic(name, symbol) ==
    IF endpoint = SpotV1Url
    THEN [dict |-> <<<<"topic", Str(name)>>, <<"event", Str("sub")>>,
                     <<"symbol", Str(symbol)>>,
                     <<"params", Dict(<<<<"binary", Bool(FALSE)>>>>)>>>>]
    ELSE [dict |-> <<<<"topic", Str(name)>>, <<"event", Str("sub")>>,
                     <<"params", Dict(<<<<"symbol", Str(symbol)>>,
                                       <<"binary", Bool(FALSE)>>>>)>>>>]

\* a push of the exchange for that topic and symbol
SpotPushFor(name, symbol) ==
    IF endpoint = SpotV1Url
    THEN [dict |-> <<<<"symbol", Str(symbol)>>, <<"symbolName", Str(symbol)>>,
                     <<"topic", Str(name)>>,
                     <<"params", Dict(<<<<"realtimeInterval", Str("24h")>>,
                                       <<"binary", Str("false")>>>>)>>,
                     <<"data", Str("rows")>>, <<"f", Bool(TRUE)>>,
                     <<"sendTime", Str("now")>>>>]
    ELSE [dict |-> <<<<"topic", Str(name)>>,
                     <<"params", Dict(<<<<"symbol", Str(symbol)>>,
                                       <<"binary", Str("false")>>,
                                       <<"symbolName", Str(symbol)>>>>)>>,
                     <<"data", Str("rows")>>>>]

\* the pops and casts of _conform_topic on (a deep copy of) a dict
SpotConformStrip(topic) ==
    LET t1 == DictPop(DictPop(DictPop(topic, "event"), "symbolName"), "symbol")
        p1 == DictPop(DictPop(DictPop(DictGet(t1, "params").d, "realtimeInterval"),
                              "symbolName"), "symbol")
        kt == DictGet(p1, "klineType")
        name == IF Truthy(kt)
                THEN [s |-> DictGet(t1, "topic").s \o <<"_">> \o kt.s]
                ELSE DictGet(t1, "topic")
        p2 == IF Truthy(kt) THEN DictPop(p1, "klineType") ELSE p1
        bin == DictGet(p2, "binary")
        p3 == IF Truthy(bin)
              THEN DictSet(p2, "binary", IF bin = Str("false") THEN Bool(FALSE) ELSE Str("true"))
              ELSE p2
        t2 == DictSet(DictSet(t1, "params", Dict(p3)), "topic", name)
    IN  DictPop(DictPop(DictPop(DictPop(t2, "data"), "f"), "sendTime"), "shared")

\* _conform_topic(topic): json.loads of a string that is a plain topic
\* name, not a JSON text, raises JSONDecodeError
SpotConformTopic(topic) ==
    IF "str" \in DOMAIN topic
    THEN [key |-> <<>>, raised |-> "JSONDecodeError"]
    ELSE [key |-> Dumps(SpotConformStrip(topic.dict)), raised |-> "none"]

\* subscribe(topic, callback); what names the logical topic asked for
SpotMgrSubscribe(topic, callback, what) ==
    LET c == SpotConformTopic(topic)
        dup == c.raised = "none" /\ c.key \in DOMAIN callback_directory
        frame == [op |-> "subscribe", args |-> <<what>>, ack |-> "none", reg |-> TRUE,
                  cb |-> callback]
        note(r, sent, dir) == [args |-> <<what>>, dup |-> dup, sent |-> sent,
                               raised |-> r, changed |-> dir # callback_directory]
    IN  /\ nsubs < MaxSubs
        /\ nsubs' = nsubs + 1
        /\ lastOp' = "subscribe"
        /\ IF c.raised # "none"
           THEN /\ raised' = c.raised
                /\ lastSub' = note(c.raised, FALSE, callback_directory)
                /\ UNCHANGED <<frames, callback_directory>>
           ELSE IF api_key
           THEN /\ raised' = "none"
                /\ callback_directory' = SetKey(callback_directory, c.key, callback)
                /\ lastSub' = note("none", FALSE, SetKey(callback_directory, c.key, callback))
                /\ UNCHANGED frames
           ELSE IF dup
           THEN /\ raised' = "Exception"
                /\ lastSub' = note("Exception", FALSE, callback_directory)
                /\ UNCHANGED <<frames, callback_directory>>
           ELSE /\ raised' = "none"
                /\ frames' = Append(frames, frame)
                /\ callback_directory' = SetKey(callback_directory, c.key, callback)
                /\ lastSub' = note("none", TRUE, SetKey(callback_directory, c.key, callback))
        /\ UNCHANGED <<api_key, handle_error, endpoint, exited, auth, sock, wsThread, wsGen,
                       connUrl, exitCalled, genAtExit, nerrors, delivered>>
        /\ UNCHANGED mgrIdle
        /\ UNCHANGED histVars
        /\ UNCHANGED pureVars
        /\ UNCHANGED stepVars

\* _handle_incoming_message for a push of a public topic
SpotMgrOnPush(name, symbol) ==
    LET c == SpotConformTopic(SpotPushFor(name, symbol))
    IN  /\ ~api_key
        /\ \E i \in 1..Len(frames) :
               frames[i].op = "subscribe" /\ frames[i].args = <<[name |-> name, symbol |-> symbol]>>
        /\ lastOp' = "push"
        /\ IF c.key \notin DOMAIN callback_directory
           THEN raised' = "KeyError" /\ UNCHANGED delivered
           ELSE /\ raised' = "none"
                /\ delivered' = [topic |-> [name |-> name, symbol |-> symbol],
                                 callback |-> callback_directory[c.key]]
        /\ UNCHANGED <<api_key, handle_error, endpoint, exited, auth, sock, wsThread, wsGen,
                       connUrl, frames, exitCalled, genAtExit, nerrors, callback_directory,
                       nsubs, lastSub>>
        /\ UNCHANGED mgrIdle
        /\ UNCHANGED histVars
        /\ UNCHANGED pureVars
        /\ UNCHANGED stepVars

\* _handle_incoming_message for a private push, a list with one item whose
\* 'e' is name: `if self.callback_directory.get(topic_name):` looks the
\* plain name up
SpotMgrOnPrivatePush(name) ==
    /\ api_key
    /\ lastOp' = "private_push"
    /\ raised' = "none"
    /\ msg' = [kind |-> "private_push", e |-> name]
    /\ IF name \in DOMAIN callback_directory
       THEN delivered' = [topic |-> [name |-> name, symbol |-> "none"],
                          callback |-> callback_directory[name]]
       ELSE UNCHANGED delivered
    /\ UNCHANGED <<api_key, handle_error, endpoint, exited, auth, sock, wsThread, wsGen,
                   connUrl, frames, exitCalled, genAtExit, nerrors, callback_directory,
                   nsubs, lastSub>>
    /\ UNCHANGED mgrIdle
    /\ UNCHANGED <<prev, nframes, wellFormed, fpc, flocal, fcall, nfetch, returned,
                   bpc, dirty, overCap, dictPush>>
    /\ UNCHANGED pureVars
    /\ UNCHANGED stepVars

(***************************************************************************)
(* SpecSpotMgr: a SpotWebSocketManager on the public v1, the public v2 or  *)
(* the private endpoint, while the application subscribes through the      *)
(* *_stream methods of pybit.spot.WebSocket and the exchange pushes.       *)
(***************************************************************************)
InitSpotMgr ==
    /\ endpoint \in {SpotV1Url, SpotV2Url, SpotPrivateUrl}
    /\ api_key = (endpoint = SpotPrivateUrl)
    /\ handle_error = TRUE
    /\ callback_directory = <<>>
    /\ frames = (IF api_key THEN <<AuthFrame>> ELSE <<>>)
    /\ sock = "connected"
    /\ exited = FALSE
    /\ raised = "none"
    /\ auth = FALSE
    /\ wsThread = "running"
    /\ wsGen = 1
    /\ connUrl = endpoint
    /\ exitCalled = FALSE
    /\ genAtExit = 0
    /\ nerrors = 0
    /\ lastOp = "init"
    /\ nsubs = 0
    /\ lastSub = [args |-> <<>>, dup |-> FALSE, sent |-> FALSE, raised |-> "none",
                  changed |-> FALSE]
    /\ delivered = [topic |-> <<>>, callback |-> "none"]
    /\ mode = "spot"
    /\ data = <<>>
    /\ subscriptions = <<>>
    /\ purge = FALSE
    /\ trim = TRUE
    /\ max_length = MaxCap
    /\ npushed = 0
    /\ nrecon = 0
    /\ resetStamp = 0
    /\ pushedSince = {}
    /\ lastRet = [val |-> NoneValue, clean |-> FALSE, atCall |-> NoneValue]
    /\ HistUnused
    /\ PureUnused
    /\ StepUnused

NextSpotMgr ==
    \/ \E name \in SpotNames, symbol \in SpotSymbols, callback \in Callbacks :
           /\ ~api_key
           /\ SpotMgrSubscribe(SpotStreamTopic(name, symbol), callback,
                               [name |-> name, symbol |-> symbol])
    \/ \E name \in SpotPrivateNames, callback \in Callbacks :
           /\ api_key
           /\ SpotMgrSubscribe([str |-> name], callback, [name |-> name, symbol |-> "none"])
    \/ \E name \in SpotNames, symbol \in SpotSymbols : SpotMgrOnPush(name, symbol)
    \/ \E name \in SpotPrivateNames : SpotMgrOnPrivatePush(name)

SpecSpotMgr == InitSpotMgr /\ [][NextSpotMgr]_vars

(***************************************************************************)
(* The classification at the head of WebSocket._on_message.  A frame is    *)
(* described by the fields the tests read: whether json.loads gave a dict, *)
(* and the values of 'auth', request.op, 'event', 'code' and the presence  *)
(* of 'topic' ("absent" for a missing key).                                *)
(***************************************************************************)
InboundFrames ==
    {[dict |-> FALSE, auth |-> "absent", op |-> "absent", event |-> "absent",
      code |-> "absent", topic |-> FALSE]}
    \cup [dict : {TRUE}, auth : {"absent", "success", "fail"},
          op : {"absent", "auth", "subscribe", "ping"}, event : {"absent", "sub"},
          code : {"absent", "0", "-1004"}, topic : BOOLEAN]

\* auth_message
AuthMessage(f) == f.dict /\ (f.auth # "absent" \/ f.op = "auth")

\* subscription_message
SubscriptionMessage(f) ==
    f.dict /\ ((f.event = "sub" \/ f.code # "absent") \/ f.op = "subscribe")

\* the branches of _on_message that run for frame f: `if auth_message`,
\* then `if subscription_message ... elif 'topic' in msg_json ... elif
\* isinstance(msg_json, list)`
BranchesRun(f) ==
    (IF AuthMessage(f) THEN {"auth"} ELSE {})
    \cup (IF SubscriptionMessage(f) THEN {"subscription"}
          ELSE IF f.topic THEN {"push"}
          ELSE IF ~f.dict THEN {"push"}
          ELSE {})

\* _on_message(message), as far as the choice of branches
Classify ==
    /\ pout = <<>>
    /\ pout' = <<BranchesRun(pin)>>
    /\ UNCHANGED pin
    /\ UNCHANGED <<data, subscriptions, purge, max_length, trim, raised, prev, nframes,
                   wellFormed>>
    /\ UNCHANGED threadVars
    /\ UNCHANGED connVars
    /\ UNCHANGED stepVars
    /\ UNCHANGED mgrVars

(***************************************************************************)
(* SpecClassify: one inbound frame dispatched by _on_message.              *)
(***************************************************************************)
InitClassify ==
    /\ ObjectIdle
    /\ pin \in InboundFrames
    /\ pout = <<>>

NextClassify == Classify

SpecClassify == InitClassify /\ [][NextClassify]_vars

(***************************************************************************)
(* Claims settled under SpecBuffer.                                        *)
(***************************************************************************)
Buffer == data[TradeTopic]

\* C1: with purge_on_fetch on and the buffer never over max_data_length,
\* whenever neither thread is inside a handler every pushed entry has been
\* returned by exactly one fetch or is still buffered: no entry is lost
\* between fetch's copy and its clear, none is returned twice.
C1_ExactlyOnce ==
    (purge /\ fpc = "idle" /\ bpc = "idle" /\ ~overCap /\ ~dictPush)
        => \A e \in 1..npushed :
               Count(returned, e) + Count(Buffer.items, e) = 1

\* C2: a fetch of the trade topic returns the whole buffer as it was when
\* called, and with purge_on_fetch on a fetch that follows another fetch
\* with no push dispatched in between returns the empty list.
C2_FullThenEmpty ==
    (fpc = "idle" /\ lastRet.val.kind # "None")
        => /\ lastRet.val = lastRet.atCall
           /\ (purge /\ lastRet.clean) => lastRet.val = EmptyList

\* C2 witness: a push was buffered, the first fetch returned it and the
\* second fetch, with nothing dispatched in between, returned [].
C2_Witness ==
    /\ purge /\ fpc = "idle" /\ nfetch = 2
    /\ lastRet.clean /\ lastRet.val = EmptyList
    /\ Len(returned) > 0

\* C3: after every reduced trade push the buffer holds at most
\* max_data_length entries, and once more than that many were appended
\* (no fetch in between) it holds exactly the most recent max_data_length.
C3_BoundedBuffer ==
    (bpc = "idle" /\ raised = "none" /\ Buffer.kind = "list")
        => /\ Len(Buffer.items) <= max_length
           /\ (nfetch = 0 /\ fpc = "idle" /\ npushed > max_length)
                  => Buffer.items = Range(npushed - max_length + 1, npushed)

\* C30: with no fetch so far, once the pushes reduced for the trade topic
\* carried npushed <= max_data_length entries and none of them raised, the
\* buffer holds the entries 1..npushed in arrival order.  A single record
\* cached as itself counts as a buffer of that one entry.
C30_AllEntriesKept ==
    (/\ bpc = "idle" /\ fpc = "idle" /\ nfetch = 0 /\ raised = "none"
     /\ npushed > 0 /\ npushed <= max_length)
        => Buffer.items = Range(1, npushed)

(***************************************************************************)
(* Claims settled under SpecDepth.                                         *)
(***************************************************************************)
\* the rule C4 states for one entry: a zero quantity removes the level if
\* its price is cached and does nothing otherwise
DepthEntryClaimed(side, entry) ==
    IF PyFloat(entry[2]) = 0 /\ FindIndex(side, entry, 1) = 0
    THEN [side |-> side, raised |-> "none"]
    ELSE DepthEntry(side, entry)

RECURSIVE DepthSideClaimed(_, _)
DepthSideClaimed(side, entries) ==
    IF entries = <<>>
    THEN side
    ELSE DepthSideClaimed(DepthEntryClaimed(side, Head(entries)).side, Tail(entries))

\* C4: in a diffDepth push reduced against a seeded book, a [price, 0]
\* pair for a price that is not cached is a no-op (no exception, the
\* remaining pairs still applied) and one for a cached price removes it.
C4_ZeroAbsentNoop ==
    (msg.kind = "depth" /\ prev[DepthTopic].kind = "book")
        => /\ raised = "none"
           /\ data[DepthTopic] =
                  BookOf(DepthSideClaimed(prev[DepthTopic].b, msg.b),
                         DepthSideClaimed(prev[DepthTopic].a, msg.a))

\* the [price, quantity] pairs of side s whose quantity is zero
ZeroPairs(s) == {i \in 1..Len(s) : PyFloat(s[i][2]) = 0}

\* C20: neither side of the cached diffDepth book holds a pair whose
\* quantity is zero, whatever pushes were reduced, the seeding one included.
C20_NoZeroQuantity ==
    data[DepthTopic].kind = "book"
        => (ZeroPairs(data[DepthTopic].b) = {} /\ ZeroPairs(data[DepthTopic].a) = {})

\* C21: each price occurs at most once on each side of the cached diffDepth
\* book, whatever pushes were reduced.  Books holding a zero-quantity pair
\* (C20) are left out, so that a violation owes nothing to them.
C21_UniquePrices ==
    (/\ data[DepthTopic].kind = "book"
     /\ ZeroPairs(data[DepthTopic].b) = {} /\ ZeroPairs(data[DepthTopic].a) = {})
        => (UniquePrices(data[DepthTopic].b) /\ UniquePrices(data[DepthTopic].a))

(***************************************************************************)
(* Claims settled under SpecBook.                                          *)
(***************************************************************************)
\* history: every snapshot so far had unique ids
SnapshotsUnique == msg.kind = "snapshot" => UniqueIds(msg.list)

\* C5 as stated: whatever snapshots (with unique ids) and deltas are
\* reduced, the cached orderbook list never holds two entries with one id.
C5_UniqueIds ==
    (prev[BookTopic].kind = "dict" \/ UniqueIds(prev[BookTopic].items))
        /\ SnapshotsUnique
        => UniqueIds(data[BookTopic].items)

\* C5 amended: as long as every snapshot had unique ids and every delta's
\* insert ids were pairwise distinct and not cached once its deletes were
\* applied, the cached orderbook never holds two entries with one id.
C5_UniqueIdsWellFormed ==
    wellFormed => UniqueIds(data[BookTopic].items)

\* C5 witness: a well-formed delta that deleted, updated and inserted was
\* reduced against a cached list.
C5_Witness ==
    /\ wellFormed /\ msg.kind = "delta" /\ raised = "none"
    /\ msg.delete # <<>> /\ msg.insert # <<>>
    /\ IdsOf(msg.insert) \cap IdsOf(msg.delete) # {}
    /\ data[BookTopic].kind = "list" /\ Len(data[BookTopic].items) = 2

\* the ids of the entries cached before the latest push (none while the
\* placeholder {} is cached)
CachedIds == IF prev[BookTopic].kind = "dict" THEN {} ELSE IdsOf(prev[BookTopic].items)

\* C22: a delta whose delete or update set names an id that was not cached
\* makes _on_message raise for that frame.
C22_AbsentIdRaises ==
    (msg.kind = "delta" /\ IdsOf(msg.delete \o msg.update) \ CachedIds # {})
        => raised # "none"

\* C22 witness: against a cached list holding id 1, a delta that deletes
\* nothing and updates the absent id 2 raised StopIteration and left the
\* list as it was.
C22_Witness ==
    /\ msg.kind = "delta" /\ msg.delete = <<>> /\ IdsOf(msg.update) = {2}
    /\ prev[BookTopic].kind = "list" /\ IdsOf(prev[BookTopic].items) = {1}
    /\ raised = "StopIteration" /\ data = prev

\* what C29 expects of a delta on the entries `items`: the entries whose
\* id is deleted removed, the entries whose id is updated replaced where
\* they stand by the last pushed entry of that id, the inserts appended
DeltaExpected(items, del, upd, ins) ==
    LET kept == SelectSeq(items, LAMBDA e : e.id \notin IdsOf(del))
        last(i) == CHOOSE j \in 1..Len(upd) :
                       /\ upd[j].id = i
                       /\ \A k \in 1..Len(upd) : upd[k].id = i => k <= j
    IN  [i \in 1..Len(kept) |->
            IF kept[i].id \in IdsOf(upd) THEN upd[last(kept[i].id)] ELSE kept[i]] \o ins

\* C29: a delta whose delete and update ids are all among the entries
\* cached by an earlier snapshot is reduced without an exception to the
\* expected entries.  Only deltas that name no id twice among their deletes
\* and updates, on cached entries with unique ids, are looked at.
C29_DeltaApplied ==
    (/\ msg.kind = "delta" /\ prev[BookTopic].kind \in {"list", "env"}
     /\ IdsOf(msg.delete \o msg.update) \subseteq CachedIds
     /\ UniqueIds(prev[BookTopic].items) /\ UniqueIds(msg.delete \o msg.update))
        => /\ raised = "none"
           /\ data[BookTopic].items
                  = DeltaExpected(prev[BookTopic].items, msg.delete, msg.update, msg.insert)

\* C37: an orderbook delta that meets a cached list and faults on an id
\* that is not cached leaves the list as it was before the push.
C37_FaultLeavesCache ==
    (nframes > 0 /\ msg.kind = "delta" /\ prev[BookTopic].kind = "list"
         /\ raised = "StopIteration")
        => data[BookTopic] = prev[BookTopic]

\* C38: with trim_data off, a delta that meets a cached snapshot raises
\* what it raises with trim_data on and leaves cached the entries it leaves
\* with trim_data on.
C38_UntrimmedAsTrimmed ==
    (nframes > 0 /\ ~trim /\ msg.kind = "delta" /\ prev[BookTopic].kind = "env")
        => LET r == BookDeltaList(prev[BookTopic].items, msg.delete, msg.update, msg.insert)
           IN  /\ raised = r.raised
               /\ data[BookTopic] = EnvOf(r.items)

(***************************************************************************)
(* Claims settled under SpecPlaceholder.                                   *)
(***************************************************************************)
\* C36: once _connect has returned and a snapshot push was reduced, the
\* value of the snapshot reduced last is cached under the topic, in
\* whichever order the two threads ran.
C36_PushSurvivesInit ==
    (cpc = "idle" /\ nframes > 0)
        => /\ BookTopic \in DOMAIN data
           /\ data[BookTopic] = BookSnapshot(msg.list)

(***************************************************************************)
(* Claims settled under SpecCtor.                                          *)
(***************************************************************************)
\* the constructor was called with an empty list, or on a futures endpoint
\* with a family that needs a parameter and has none
UsageError ==
    /\ lastOp # "new"
    /\ \/ pin = <<>>
       \/ mode = "futures" /\ SeqToSet(pin) \cap BareFamilies # {}

\* C23: such a call raises Exception out of the constructor; no thread was
\* started, no socket opened and no frame sent.
C23_UsageErrorBeforeOpen ==
    UsageError => (/\ lastOp = "init_raised" /\ raised = "Exception"
                   /\ sock = "none" /\ wsThread = "none" /\ frames = <<>>
                   /\ connUrl = "none")

\* C23 witness: a futures constructor was handed a well-formed topic and
\* then the bare family klineV2, and raised.
C23_Witness ==
    /\ mode = "futures" /\ lastOp = "init_raised" /\ raised = "Exception"
    /\ pin = <<Topic("str", "trade.BTCUSD"), Topic("str", "klineV2")>>
    /\ frames = <<>> /\ sock = "none"

(***************************************************************************)
(* Claims settled under SpecSnapshot.                                      *)
(***************************************************************************)
\* cached value v holds payload: it is the payload, or the one record of a
\* payload that is a list of one record
HoldsPayload(v, payload) ==
    \/ v = payload
    \/ payload.kind = "list" /\ Len(payload.items) = 1 /\ v = RecOf(payload.items[1])

\* C25: once a snapshot push was reduced the cache holds its payload: the
\* 'data' part with trim_data, the whole message without.  Only pushes
\* whose 'data' is a non-empty list of records are looked at, the shape the
\* futures endpoints send.
C25_LatestPayload ==
    (msg.kind = "snapshot_push" /\ msg.data.kind = "list" /\ msg.data.items # <<>>)
        => /\ raised = "none"
           /\ IF trim THEN HoldsPayload(data[SnapTopic], msg.data)
                      ELSE data[SnapTopic] = SnapEnv(msg.data)

(***************************************************************************)
(* Claims settled under SpecOrder.                                         *)
(***************************************************************************)
\* the field that holds the id of the entries of this run
OrderKey == OrdId(OrderTopic, SymbolOf(endpoint))

\* the entries of s whose id is i, in order
RECURSIVE WithId(_, _)
WithId(s, i) ==
    IF s = <<>> THEN <<>>
    ELSE IF Head(s)[OrderKey] = i THEN <<Head(s)>> \o WithId(Tail(s), i)
    ELSE WithId(Tail(s), i)

\* C31: after every order/stop_order push the cache is a list (or still the
\* placeholder when nothing was pushed) that holds, for each id, at most
\* one entry: the last entry of the push with that id if the push carried
\* the id, else the entry that was cached before the push.
C31_OneEntryPerId ==
    (nframes > 0 /\ msg.kind = "order_push") =>
        LET cur == data[OrderTopic]
            old == prev[OrderTopic].items
            new == msg.data
        IN  \A i \in OrderIds :
                LET pushed == WithId(new, i)
                IN  WithId(cur.items, i) =
                        IF pushed # <<>> THEN <<pushed[Len(pushed)]>>
                        ELSE WithId(old, i)

(***************************************************************************)
(* Claims settled under SpecInstr.                                         *)
(***************************************************************************)
\* a snapshot is cached under v: with trim_data off the whole message is
SnapshotCached(v) == trim \/ "data" \in DOMAIN v.items

\* the instrument map cached under v
InstrOf(v) == IF trim THEN v.items ELSE v.items["data"]

\* C32: an instrument_info snapshot push leaves its instrument map cached,
\* and a delta push that meets a cached snapshot leaves the cached
\* instrument map with the delta's fields overwritten and the others kept,
\* whatever trim_data is.
C32_DeltaMerged ==
    /\ (nframes > 0 /\ msg.kind = "instr_snapshot") =>
            InstrOf(data[InstrTopic]) = msg.data
    /\ (nframes > 0 /\ msg.kind = "instr_delta" /\ raised = "none"
            /\ SnapshotCached(prev[InstrTopic])) =>
            InstrOf(data[InstrTopic]) = MergeInto(InstrOf(prev[InstrTopic]), msg.update[1])

(***************************************************************************)
(* Claims settled under SpecExit.                                          *)
(***************************************************************************)
\* C24: exited is never true while the socket of self.ws is open.
C24_ExitedOnlyClosed == exited => sock = "none"

(***************************************************************************)
(* Claims settled under SpecSocket.                                        *)
(***************************************************************************)
\* C7: a fetch made after an error-triggered reconnect completed returns no
\* value cached before the last _reset, and returns an empty value as long
\* as no push for its topic was reduced since that _reset.
C7_ReconnectClears ==
    (lastRet.recon > 0 /\ lastRet.val.kind \notin {"None", "raise"})
        => /\ \A e \in SeqToSet(lastRet.val.items) : e > lastRet.floor
           /\ ~lastRet.pushed => lastRet.val.items = <<>>

\* C7 witness: a value was cached, the transport failed, the reconnect
\* completed, and a fetch of a subscribed topic then returned the empty
\* placeholder.
C7_Witness ==
    /\ lastOp = "fetch" /\ lastRet.recon > 0 /\ lastRet.floor > 0
    /\ ~lastRet.pushed /\ lastRet.val = EmptyDict
    /\ lastRet.topic \in SeqToSet(subscriptions)

\* C8: once the caller has invoked exit(), the connection stays exited and
\* _connect is never called again.
C8_ExitTerminal ==
    exitCalled => (exited /\ wsGen = genAtExit)

\* C10: whenever the transport of the current socket is connected, every
\* topic registered on the connection is listed by a subscribe frame sent
\* on that socket.
C10_Resubscribed ==
    sock = "connected"
        => \A i \in 1..Len(subscriptions) : subscriptions[i].name \in Listed(frames)

\* C11: a fetch for a topic that is not among the current subscriptions
\* returns None, raises nothing, and leaves the cache and the subscription
\* list as they were.
C11_NotSubscribedIsNone ==
    [][(lastOp' = "fetch" /\ ~lastRet'.listed)
           => /\ lastRet'.val = NoneValue
              /\ raised' = "none"
              /\ data' = data
              /\ subscriptions' = subscriptions]_vars

C28_AuthOnlyAfterAck ==
    [][/\ (auth' /\ ~auth) => lastOp' = "auth_ack"
       /\ lastOp' = "auth_nack" => auth' = auth
       /\ wsGen' # wsGen => ~auth']_vars

\* C28 witness: a connection that reconnected got a failed answer on its
\* new socket and is unauthenticated.
C28_Witness ==
    /\ lastOp = "auth_nack" /\ ~auth /\ nrecon > 0 /\ sock = "connected"

\* the positions of the frames of kind op sent on the current socket
FramesOf(op) == {i \in 1..Len(frames) : frames[i].op = op}

\* C18 as stated: every connected socket of a connection constructed with
\* credentials carries exactly one auth frame, sent before the subscribe
\* frames; without credentials no auth frame is sent.
C18_AuthFirst ==
    /\ ~api_key => FramesOf("auth") = {}
    /\ (api_key /\ sock = "connected" /\ raised # "AttributeError")
           => /\ Cardinality(FramesOf("auth")) = 1
              /\ \A i \in FramesOf("auth") :
                     /\ frames[i].args = <<"api_key", "expires", "signature">>
                     /\ \A j \in FramesOf("subscribe") : i < j

\* C18, corrected: the same on every endpoint that is not an
\* unauthenticated spot endpoint.
C18_AuthFirstUnlessPublicSpot ==
    /\ ~api_key => FramesOf("auth") = {}
    /\ (api_key /\ mode # "spot" /\ sock = "connected")
           => /\ Cardinality(FramesOf("auth")) = 1
              /\ \A i \in FramesOf("auth") :
                     /\ frames[i].args = <<"api_key", "expires", "signature">>
                     /\ \A j \in FramesOf("subscribe") : i < j
    /\ mode = "spot" => FramesOf("auth") = {}

\* C18 witness: a reconnect of a futures connection with credentials
\* completed, and its socket carries the auth frame, then the subscribe
\* frame.
C18_Witness ==
    /\ api_key /\ mode = "futures" /\ nrecon > 0 /\ sock = "connected"
    /\ Len(frames) = 2 /\ frames[1].op = "auth" /\ frames[2].op = "subscribe"

(***************************************************************************)
(* Claims settled under SpecManager.                                       *)
(***************************************************************************)
\* C6: a subscribe call for a topic already registered on the connection
\* (same topic family, same symbol) raises, sends no frame and leaves the
\* callback directory as it was.
C6_DuplicateRejected ==
    lastSub.dup => (lastSub.raised # "none" /\ ~lastSub.sent /\ ~lastSub.changed)

\* C9: when _on_error returns on a manager with restart_on_error that the
\* caller did not exit, and the transport did not time out, the manager is
\* connected again, to the url it was constructed with.
C9_Reconnects ==
    (lastOp = "on_error" /\ handle_error /\ ~exitCalled
         /\ raised # "WebSocketTimeoutException")
        => (sock = "connected" /\ connUrl = Url /\ wsGen > 1)

\* C13: on a manager constructed without credentials, a subscribe call for
\* a private topic raises PermissionError and sends no frame.
C13_PrivateNeedsCredentials ==
    (nsubs > 0 /\ ~api_key /\ lastSub.args # <<>> /\ lastSub.args[1] \in private_topics)
        => (lastSub.raised = "PermissionError" /\ ~lastSub.sent)

\* what _get_callback finds for the formatted topic t in directory dir
CallbackFor(dir, t) ==
    IF ExtractTopic(t) \in DOMAIN dir THEN dir[ExtractTopic(t)] ELSE "KeyError"

\* no formatted topic was listed by two subscribe frames
NoTopicTwice ==
    \A i, j \in 1..Len(frames) :
        (i # j /\ frames[i].op = "subscribe" /\ frames[j].op = "subscribe")
            => SeqToSet(frames[i].args) \cap SeqToSet(frames[j].args) = {}

\* C15: dispatching a failed subscription acknowledgement raises nothing
\* and leaves the callback of every topic that stays registered as it was
\* (no topic having been subscribed twice).
C15_RejectionIsLocal ==
    [][(lastOp' = "sub_ack" /\ NoTopicTwice)
           => /\ raised' = "none"
              /\ \A t \in Registered' :
                     CallbackFor(callback_directory', t) = CallbackFor(callback_directory, t)]_vars

\* the subscribe frames that list the formatted topic t and were not
\* rejected
FramesFor(t) ==
    {i \in 1..Len(frames) : /\ frames[i].op = "subscribe"
                            /\ frames[i].ack # "fail"
                            /\ t \in SeqToSet(frames[i].args)}

\* no subscribe call asked for every symbol of a topic
NoWildcard ==
    \A i \in 1..Len(frames) :
        frames[i].op = "subscribe" =>
            \A k \in 1..Len(frames[i].args) : symbol_wildcard \notin SeqToSet(frames[i].args[k])

\* C34: a push for a formatted topic that one subscribe call listed (none
\* asking for every symbol), once dispatched without an exception, was
\* handed to the callback passed to that call, whatever was subscribed for
\* other symbols since.
C34_OwnCallback ==
    (lastOp = "push" /\ raised = "none" /\ NoWildcard
         /\ Cardinality(FramesFor(delivered.topic)) = 1)
        => \A i \in FramesFor(delivered.topic) : delivered.callback = frames[i].cb

(***************************************************************************)
(* Claims settled under SpecSubscribe.                                     *)
(***************************************************************************)
\* the subscribe frames sent so far
SubFrames == {i \in 1..Len(frames) : frames[i].op = "subscribe"}

\* C35: while a single subscribe call was made, dispatching the failed
\* acknowledgement of its frame raises nothing, and once the call has
\* returned and the acknowledgement was dispatched the topic has no entry
\* in the callback directory, whichever of the two ran first.
C35_RejectedEndsUnregistered ==
    \A i \in SubFrames :
        (Cardinality(SubFrames) = 1 /\ frames[i].ack = "fail") =>
            /\ lastOp = "sub_ack" => raised = "none"
            /\ (spc = "idle" /\ frames[i].reg) =>
                   ExtractTopic(frames[i].args[1]) \notin DOMAIN callback_directory

(***************************************************************************)
(* Claims settled under SpecReconnect.                                     *)
(***************************************************************************)
\* C12: a fetch for a subscribed topic, given in a form the constructor
\* accepts, never raises, and returns an empty value when no push for the
\* topic was reduced since the last _reset.
C12_FetchNeverRaises ==
    (lastOp = "fetch" /\ lastRet.listed /\ lastRet.arg.form \in {"str", "dict"})
        => /\ lastRet.val.kind # "raise"
           /\ raised = "none"
           /\ ~lastRet.pushed => lastRet.val.items = <<>>

\* C17: _connect leaves its retry loop after at most 10 sleeps, and raises
\* WebSocketTimeoutException exactly when the transport is not connected at
\* that moment.
C17_TimeoutIffNotConnected ==
    lastOp = "connect_left"
        => /\ connNote.left \in 0..Retries
           /\ connNote.timeout <=> ~connNote.up

(***************************************************************************)
(* Claims settled under SpecAck.                                           *)
(***************************************************************************)
\* C14: once a failed subscription acknowledgement for a topic was
\* dispatched, a fetch for that topic returns None (not subscribed).
C14_RejectedIsUnsubscribed ==
    (lastOp = "fetch" /\ lastRet.topic.name \in Rejected /\ lastRet.arg.form # "bare")
        => (lastRet.val = NoneValue /\ ~lastRet.listed)

(***************************************************************************)
(* Claims settled under SpecConform.                                       *)
(***************************************************************************)
\* C16: two wire representations of one logical topic, differing only in
\* stripped fields (data, sendTime, f, shared, symbolName,
\* realtimeInterval) or in the order of their keys, get the same key.
C16_ConformedKeyEqual ==
    (pout # <<>> /\ pin.la = pin.lb) => pout[1] = pout[2]

\* C16 witness: conform_topic was applied to two different representations
\* of one topic, one with a stripped field the other lacks, and the keys
\* are equal.
C16_Witness ==
    /\ pout # <<>> /\ pin.la = pin.lb
    /\ Len(pin.a) > Len(pin.b)
    /\ pin.a[1][1] # pin.b[1][1]
    /\ pout[1] = pout[2]

(***************************************************************************)
(* Claims settled under SpecSpotKey.                                       *)
(***************************************************************************)
\* C27: a fetch handed the very dict or JSON string that was handed to the
\* constructor finds the subscription: it does not return None.
C27_GivenSpecFound ==
    (lastOp = "fetch" /\ pin.how = "given") => pout[1] # NoneValue

(***************************************************************************)
(* Claims settled under SpecSpotMgr.                                       *)
(***************************************************************************)
\* the directory key of the logical topic w
SpotKeyOf(w) == SpotConformTopic(SpotStreamTopic(w.name, w.symbol)).key

\* the subscribe frames sent before the last subscribe call
SentBefore == {i \in SubFrames : ~(lastSub.sent /\ i = Len(frames))}

\* C33: on a public manager, a subscribe call for a topic and symbol that
\* no earlier call named is not rejected, and leaves every earlier
\* subscription with the callback it was made with.
C33_SymbolsKeptApart ==
    (lastOp = "subscribe" /\ ~api_key
         /\ \A i \in SentBefore : frames[i].args # lastSub.args)
        => /\ lastSub.raised = "none"
           /\ \A i \in SentBefore :
                  /\ SpotKeyOf(frames[i].args[1]) \in DOMAIN callback_directory
                  /\ callback_directory[SpotKeyOf(frames[i].args[1])] = frames[i].cb

\* C39: on a private manager, subscribe with a plain topic name raises
\* nothing, and a push whose 'e' is the name subscribed last is handed to
\* the callback of that call.
C39_PrivateNameRegistered ==
    api_key =>
        /\ lastOp = "subscribe" => lastSub.raised = "none"
        /\ (lastOp = "private_push" /\ nsubs > 0 /\ lastSub.args[1].name = msg.e)
               => delivered.topic = lastSub.args[1]

(***************************************************************************)
(* Claims settled under SpecClassify.                                      *)
(***************************************************************************)
\* C19: exactly one of the branches authentication ack, subscription ack
\* and data push runs for every inbound frame.
C19_ExactlyOneBranch ==
    pout # <<>> => Cardinality(pout[1]) = 1

====
